---- MODULE Spec2Model ----
(***************************************************************************)
(* The rate-limited request dispatch of the Semantic Scholar MCP server:   *)
(* RateLimiter (semantic_scholar/utils/http.py) as a state machine.        *)
(*                                                                         *)
(* asyncio runs one task at a time and switches tasks only at an await, so *)
(* every action below is one run of a task from one suspension point to    *)
(* the next.  acquire suspends in two places: in asyncio.Lock.acquire when *)
(* the bucket lock is taken (line 81) and in the sleeper (line 100).       *)
(***************************************************************************)
EXTENDS Integers, Sequences, FiniteSets, TLC

VARIABLES
    cfg,        \* RateLimitConfig as the process (or a test's monkeypatch) set it
    sleeper,    \* "fake": the tests' clock/sleeper pair; "asyncio": time.monotonic/asyncio.sleep
    clock,      \* what self._clock() returns
    events,     \* self._events: bucket -> the log of admission timestamps
    locks,      \* self._locks: bucket -> asyncio.Lock (locked flag, FIFO of waiting tasks)
    pc,         \* per task: "idle", "waiting" (for the lock) or "sleeping" (in the sleeper)
    args,       \* per task: the arguments of its acquire call
    fut,        \* per task: the state of the future it waits on in Lock.acquire
    cancelReq,  \* per task: Task.cancel() was called, CancelledError is thrown when it resumes
    wakeAt,     \* per task: the clock value at which its sleep ends
    slept,      \* per task: the delays its current call has passed to the sleeper
    calls,      \* number of acquire calls started
    cancels,    \* number of Task.cancel() calls made
    history,    \* the calls that ended, in order, with how they ended
    environ,    \* os.environ["SEMANTIC_SCHOLAR_API_KEY"], or None
    debug,      \* logger.DEBUG_REQUESTS: debug records are emitted
    http_client,\* the module global: None (0) or the number of a client
    clients,    \* the httpx.AsyncClient objects constructed: "open" or "closed"
    closers,    \* cleanup_client calls suspended in aclose()
    rpc,        \* per task: "idle", "acquiring" (in acquire) or "network" (in client.request)
    req,        \* per task: its make_request call (descriptor, key, tier, client)
    attempts,   \* the calls of client.request made, sent or refused by the client
    returned,   \* the make_request call that ended last: what it saw and returned
    logs,       \* the log records emitted by the latest step of a request
    dcalls,     \* number of make_request, tool and client calls started
    stop_event, \* server.stop_event: None, or the asyncio.Event, clear or set
    all_tasks,  \* the tasks of the event loop: where each is and what it awaits
    legacy      \* the RateLimiter of semantic_scholar_server.py, and its clock

\* The state of the rate limiter and the state of the dispatcher around it.
lvars == <<cfg, sleeper, clock, events, locks, pc, args, fut, cancelReq, wakeAt,
           slept, calls, cancels, history>>

\* The state of the server's tasks around both, and the limiter of the
\* single-file server.
svars == <<stop_event, all_tasks, legacy>>

dvars == <<environ, debug, http_client, clients, closers, rpc, req, attempts,
           returned, logs, dcalls, svars>>

vars == <<lvars, dvars>>

(***************************************************************************)
(* Bounds of the model.                                                    *)
(***************************************************************************)
MaxCalls == 3       \* acquire calls of concurrent callers
MaxCancels == 1     \* Task.cancel() calls
MaxTime == 1        \* clock ticks while no task sleeps
MaxSeqCalls == 3    \* acquire calls of a sequential caller
MaxDispatch == 3    \* make_request, tool, initialize_client and cleanup_client calls
MaxTierCalls == 4   \* acquire calls of the two tiers into one bucket
MaxBurst == 3       \* acquire calls made at one time
MaxSignals == 1     \* signals delivered to the process
MaxLegacyCalls == 3 \* acquire calls made of both limiters
MaxLegacyTime == 9  \* the clock value up to which their caller idles

\* Every call may run in a task of its own.
Tasks == 1..(IF MaxCalls > MaxSeqCalls THEN MaxCalls ELSE MaxSeqCalls)

(***************************************************************************)
(* Strings.  Python's `pat in s`.                                          *)
(***************************************************************************)
Contains(pat, s) ==
    \E i \in 1..(Len(s) - Len(pat) + 1) : SubSeq(s, i, i + Len(pat) - 1) = pat

(***************************************************************************)
(* Configuration (semantic_scholar/config.py).  A limit is the pair        *)
(* <<requests, seconds>>.  config.py sets three of the five limits http.py *)
(* reads; the other two have the values the tests install.                 *)
(***************************************************************************)
SEARCH_LIMIT == <<1, 1>>
BATCH_LIMIT == <<1, 1>>
DEFAULT_LIMIT == <<10, 1>>
RECOMMENDATIONS_LIMIT == <<1, 3>>
UNAUTHENTICATED_LIMIT == <<1, 5>>
RESTRICTED_ENDPOINTS == <<"/paper/batch", "/paper/search", "/recommendations">>

RateLimitConfig ==
    [SEARCH_LIMIT |-> SEARCH_LIMIT, BATCH_LIMIT |-> BATCH_LIMIT,
     DEFAULT_LIMIT |-> DEFAULT_LIMIT,
     RECOMMENDATIONS_LIMIT |-> RECOMMENDATIONS_LIMIT,
     UNAUTHENTICATED_LIMIT |-> UNAUTHENTICATED_LIMIT]

\* test_rate_limiter_uses_shared_bucket_for_dynamic_ids
PatchSharedBucket == [RateLimitConfig EXCEPT !.DEFAULT_LIMIT = <<2, 10>>]
\* test_rate_limiter_uses_unauthenticated_limits
PatchUnauthenticated ==
    [RateLimitConfig EXCEPT !.DEFAULT_LIMIT = <<100, 1>>,
                            !.UNAUTHENTICATED_LIMIT = <<1, 5>>]
\* a configuration that switches one category's throttle off (line 84)
PatchUnconstrained == [RateLimitConfig EXCEPT !.BATCH_LIMIT = <<0, 1>>]

Configs ==
    {RateLimitConfig, PatchSharedBucket, PatchUnauthenticated, PatchUnconstrained}

(***************************************************************************)
(* The requests the callers make.  base_url = None is the empty string:    *)
(* both are falsy at line 41.                                              *)
(***************************************************************************)
NoBase == ""
RecommendationsBase == "https://api.semanticscholar.org/recommendations/v1"

Endpoints ==
    {"/paper/1", "/paper/2", "/paper/3", "/paper/search", "/paper/search/bulk",
     "/paper/search/match", "/author/search", "/paper/batch", "/author/batch",
     "/papers/forpaper/abc", "/papers/forpaper/def", "/paper/1/recommendations",
     "/author/search/paper/batch"}

Request(endpoint, base_url, authenticated) ==
    [endpoint |-> endpoint, base_url |-> base_url, authenticated |-> authenticated]

\* Every endpoint with a credential; one endpoint of each bucket without;
\* the recommendation sub-paths under the recommendations base URL.
Requests ==
    {Request(e, NoBase, TRUE) : e \in Endpoints}
    \cup {Request(e, NoBase, FALSE) :
            e \in {"/paper/1", "/paper/search", "/author/search", "/paper/batch",
                   "/author/batch", "/paper/1/recommendations"}}
    \cup {Request(e, RecommendationsBase, TRUE) :
            e \in {"/papers/forpaper/abc", "/papers/forpaper/def", "/paper/search"}}
    \cup {Request("/papers/forpaper/abc", RecommendationsBase, FALSE)}

\* What concurrent callers ask for: two ID-bearing paths of one bucket and a
\* path of another bucket, in both tiers.
ConcurrentRequests ==
    {Request("/paper/1", NoBase, TRUE), Request("/paper/2", NoBase, TRUE),
     Request("/paper/1", NoBase, FALSE),
     Request("/paper/batch", NoBase, TRUE), Request("/paper/batch", NoBase, FALSE)}

NoArgs == [endpoint |-> "", base_url |-> NoBase, authenticated |-> FALSE]

(***************************************************************************)
(* RateLimiter._bucket_key                                                 *)
(***************************************************************************)
\* (a variant that keeps an uncategorized path as its own bucket)
bucket_key_perpath(endpoint, base_url) ==
    IF base_url # NoBase /\ Contains("recommendations", base_url)
        THEN "/recommendations"
    ELSE IF Contains("recommendations", endpoint) THEN "/recommendations"
    ELSE IF Contains("/author/search", endpoint) THEN "/author/search"
    ELSE IF Contains("/paper/search", endpoint) THEN "/paper/search"
    ELSE IF Contains("/paper/batch", endpoint) THEN "/paper/batch"
    ELSE IF Contains("/author/batch", endpoint) THEN "/author/batch"
    ELSE endpoint

\* (a variant that tests /paper/batch before /author/search)
bucket_key_batchfirst(endpoint, base_url) ==
    IF base_url # NoBase /\ Contains("recommendations", base_url)
        THEN "/recommendations"
    ELSE IF Contains("recommendations", endpoint) THEN "/recommendations"
    ELSE IF Contains("/paper/batch", endpoint) THEN "/paper/batch"
    ELSE IF Contains("/author/search", endpoint) THEN "/author/search"
    ELSE IF Contains("/paper/search", endpoint) THEN "/paper/search"
    ELSE IF Contains("/author/batch", endpoint) THEN "/author/batch"
    ELSE "/default"

\* (a variant that does not look at the base URL)
bucket_key_nobase(endpoint, base_url) ==
    IF Contains("recommendations", endpoint) THEN "/recommendations"
    ELSE IF Contains("/author/search", endpoint) THEN "/author/search"
    ELSE IF Contains("/paper/search", endpoint) THEN "/paper/search"
    ELSE IF Contains("/paper/batch", endpoint) THEN "/paper/batch"
    ELSE IF Contains("/author/batch", endpoint) THEN "/author/batch"
    ELSE "/default"

bucket_key(endpoint, base_url) ==
    IF base_url # NoBase /\ Contains("recommendations", base_url)
        THEN "/recommendations"
    ELSE IF Contains("recommendations", endpoint) THEN "/recommendations"
    ELSE IF Contains("/author/search", endpoint) THEN "/author/search"
    ELSE IF Contains("/paper/search", endpoint) THEN "/paper/search"
    ELSE IF Contains("/paper/batch", endpoint) THEN "/paper/batch"
    ELSE IF Contains("/author/batch", endpoint) THEN "/author/batch"
    ELSE "/default"

(***************************************************************************)
(* RateLimiter._get_rate_limit                                             *)
(***************************************************************************)
\* (a variant that looks at the tier only after the restricted list)
get_rate_limit_tierlast(c, endpoint, authenticated) ==
    IF \E i \in DOMAIN RESTRICTED_ENDPOINTS :
            Contains(RESTRICTED_ENDPOINTS[i], endpoint)
        THEN IF Contains("batch", endpoint) THEN c.BATCH_LIMIT
             ELSE IF Contains("search", endpoint) THEN c.SEARCH_LIMIT
             ELSE IF Contains("recommendations", endpoint)
                 THEN c.RECOMMENDATIONS_LIMIT
             ELSE c.SEARCH_LIMIT
    ELSE IF ~authenticated THEN c.UNAUTHENTICATED_LIMIT
    ELSE c.DEFAULT_LIMIT

\* (a variant without the batch case)
get_rate_limit_nobatch(c, endpoint, authenticated) ==
    IF ~authenticated THEN c.UNAUTHENTICATED_LIMIT
    ELSE IF \E i \in DOMAIN RESTRICTED_ENDPOINTS :
                Contains(RESTRICTED_ENDPOINTS[i], endpoint)
        THEN IF Contains("search", endpoint) THEN c.SEARCH_LIMIT
             ELSE IF Contains("recommendations", endpoint)
                 THEN c.RECOMMENDATIONS_LIMIT
             ELSE c.SEARCH_LIMIT
    ELSE c.DEFAULT_LIMIT

\* (a variant that gives callers without a credential the default limit)
get_rate_limit_unauthdefault(c, endpoint, authenticated) ==
    IF ~authenticated THEN c.DEFAULT_LIMIT
    ELSE IF \E i \in DOMAIN RESTRICTED_ENDPOINTS :
                Contains(RESTRICTED_ENDPOINTS[i], endpoint)
        THEN IF Contains("batch", endpoint) THEN c.BATCH_LIMIT
             ELSE IF Contains("search", endpoint) THEN c.SEARCH_LIMIT
             ELSE IF Contains("recommendations", endpoint)
                 THEN c.RECOMMENDATIONS_LIMIT
             ELSE c.SEARCH_LIMIT
    ELSE c.DEFAULT_LIMIT

get_rate_limit(c, endpoint, authenticated) ==
    IF ~authenticated THEN c.UNAUTHENTICATED_LIMIT
    ELSE IF \E i \in DOMAIN RESTRICTED_ENDPOINTS :
                Contains(RESTRICTED_ENDPOINTS[i], endpoint)
        THEN IF Contains("batch", endpoint) THEN c.BATCH_LIMIT
             ELSE IF Contains("search", endpoint) THEN c.SEARCH_LIMIT
             ELSE IF Contains("recommendations", endpoint)
                 THEN c.RECOMMENDATIONS_LIMIT
             ELSE c.SEARCH_LIMIT
    ELSE c.DEFAULT_LIMIT

\* acquire, line 82
limit_endpoint(a) ==
    LET bucket == bucket_key(a.endpoint, a.base_url)
    IN  IF bucket # "/default" THEN bucket ELSE a.endpoint

\* Lines 76 and 83 for every request and configuration of the model, worked
\* out once: the bucket and the limit of a call.
BucketTable == [r \in Requests |-> bucket_key(r.endpoint, r.base_url)]

\* SEARCH_LIMIT with a longer window, for the two limiters side by side
PatchSearchWindow == [RateLimitConfig EXCEPT !.SEARCH_LIMIT = <<1, 3>>]

LimitTable ==
    [c \in Configs \cup {PatchSearchWindow} |->
        [r \in Requests |-> get_rate_limit(c, limit_endpoint(r), r.authenticated)]]

BucketOf(a) == BucketTable[a]

LimitOf(a) == LimitTable[cfg][a]

\* acquire, line 84
Unconstrained(lim) == lim[1] <= 0 \/ lim[2] <= 0

(***************************************************************************)
(* One iteration of acquire's loop (lines 89-98).                          *)
(***************************************************************************)
\* lines 91-92: drop the events at or before the cutoff from the front
\* (a variant that drops events one clock unit early)
RECURSIVE Prune_early(_, _)
Prune_early(ev, cutoff) ==
    IF ev # <<>> /\ Head(ev) <= cutoff + 1 THEN Prune_early(Tail(ev), cutoff) ELSE ev

RECURSIVE Prune(_, _)
Prune(ev, cutoff) ==
    IF ev # <<>> /\ Head(ev) <= cutoff THEN Prune(Tail(ev), cutoff) ELSE ev

\* (a variant that admits into a full log)
CanAdmit_full(ev, requests) == Len(ev) <= requests

\* line 94
CanAdmit(ev, requests) == Len(ev) < requests

\* (a variant that records the event before it sleeps)
Iteration_reserve(ev, now, lim) ==
    LET pruned == Prune(ev, now - lim[2])
    IN  IF CanAdmit(pruned, lim[1])
            THEN [admit |-> TRUE, events |-> Append(pruned, now), delay |-> 0]
            ELSE [admit |-> FALSE, events |-> Append(pruned, now),
                  delay |-> (pruned[1] + lim[2]) - now]

\* (a variant that reads the oldest event before the trim)
Iteration_stale(ev, now, lim) ==
    LET pruned == Prune(ev, now - lim[2])
    IN  IF CanAdmit(pruned, lim[1])
            THEN [admit |-> TRUE, events |-> Append(pruned, now), delay |-> 0]
            ELSE [admit |-> FALSE, events |-> pruned,
                  delay |-> (ev[1] + lim[2]) - now]

\* (a variant that records the event at the front of the log)
Iteration_prepend(ev, now, lim) ==
    LET pruned == Prune(ev, now - lim[2])
    IN  IF CanAdmit(pruned, lim[1])
            THEN [admit |-> TRUE, events |-> <<now>> \o pruned, delay |-> 0]
            ELSE [admit |-> FALSE, events |-> pruned,
                  delay |-> (pruned[1] + lim[2]) - now]

Iteration(ev, now, lim) ==
    LET pruned == Prune(ev, now - lim[2])
    IN  IF CanAdmit(pruned, lim[1])
            THEN [admit |-> TRUE, events |-> Append(pruned, now), delay |-> 0]
            ELSE [admit |-> FALSE, events |-> pruned,
                  delay |-> (pruned[1] + lim[2]) - now]

\* The whole loop under the tests' sleeper, which adds the delay to the clock
\* and returns without suspending the task.
RECURSIVE LoopFake(_, _, _, _)
LoopFake(ev, now, lim, sl) ==
    LET r == Iteration(ev, now, lim)
    IN  IF r.admit THEN [events |-> r.events, now |-> now, slept |-> sl]
        ELSE IF r.delay > 0
            THEN LoopFake(r.events, now + r.delay, lim, Append(sl, r.delay))
        ELSE LoopFake(r.events, now, lim, sl)

(***************************************************************************)
(* asyncio.Lock, as `async with self._locks[bucket]` uses it.              *)
(***************************************************************************)
NewLock == [locked |-> FALSE, waiters |-> <<>>]

\* (a variant that does not look at the lock)
LockFree_unlocked(lock, fu) ==
    \A i \in DOMAIN lock.waiters : fu[lock.waiters[i]] = "cancelled"

\* Lock.acquire takes a free lock at once unless a live waiter is queued
LockFree(lock, fu) ==
    /\ ~lock.locked
    /\ \A i \in DOMAIN lock.waiters : fu[lock.waiters[i]] = "cancelled"

\* (a variant that wakes nobody)
WakeUpFirst_nobody(waiters, fu) == fu

\* Lock._wake_up_first: the first waiter's future gets its result, unless done
WakeUpFirst(waiters, fu) ==
    IF waiters # <<>> /\ fu[waiters[1]] = "pending"
        THEN [fu EXCEPT ![waiters[1]] = "result"]
        ELSE fu

Without(seq, t) == SelectSeq(seq, LAMBDA x : x # t)

(***************************************************************************)
(* The end of a call: the lock is released on the way out of `async with`. *)
(***************************************************************************)
Ended(a, lim, now, outcome, sl) ==
    [endpoint |-> a.endpoint, base_url |-> a.base_url,
     authenticated |-> a.authenticated, bucket |-> BucketOf(a),
     limit |-> lim, at |-> now, outcome |-> outcome, slept |-> sl]

Leave(t, a, lk, fu, lim, now, outcome, sl) ==
    LET bucket == BucketOf(a)
    IN  /\ locks' = [lk EXCEPT ![bucket].locked = FALSE]
        /\ fut' = WakeUpFirst(lk[bucket].waiters, fu)
        /\ pc' = [pc EXCEPT ![t] = "idle"]
        /\ args' = [args EXCEPT ![t] = NoArgs]
        /\ wakeAt' = [wakeAt EXCEPT ![t] = 0]
        /\ slept' = [slept EXCEPT ![t] = <<>>]
        /\ cancelReq' = [cancelReq EXCEPT ![t] = FALSE]
        /\ history' = Append(history, Ended(a, lim, now, outcome, sl))

(***************************************************************************)
(* acquire from the loop head (line 88) with the lock held, to the next    *)
(* suspension or the return.                                               *)
(***************************************************************************)
Loop(t, a, lk, fu, evs, sl) ==
    LET bucket == BucketOf(a)
        lim == LimitOf(a)
    IN  IF sleeper = "fake"
        THEN LET r == LoopFake(evs[bucket], clock, lim, sl)
             IN  /\ clock' = r.now
                 /\ events' = [evs EXCEPT ![bucket] = r.events]
                 /\ Leave(t, a, lk, fu, lim, r.now, "admitted", r.slept)
        ELSE LET r == Iteration(evs[bucket], clock, lim)
             IN  /\ clock' = clock
                 /\ events' = [evs EXCEPT ![bucket] = r.events]
                 /\ IF r.admit
                    THEN Leave(t, a, lk, fu, lim, clock, "admitted", sl)
                    ELSE \* line 100; a delay <= 0 would go round the loop again
                         /\ locks' = lk
                         /\ fut' = fu
                         /\ pc' = [pc EXCEPT ![t] = "sleeping"]
                         /\ args' = [args EXCEPT ![t] = a]
                         /\ wakeAt' = [wakeAt EXCEPT ![t] =
                                IF r.delay > 0 THEN clock + r.delay ELSE clock]
                         /\ slept' = [slept EXCEPT ![t] =
                                IF r.delay > 0 THEN Append(sl, r.delay) ELSE sl]
                         /\ UNCHANGED <<cancelReq, history>>

\* lines 82-87: the body of `async with`, entered with the lock held
Section(t, a, lk, fu, evs) ==
    IF Unconstrained(LimitOf(a))
        THEN /\ clock' = clock
             /\ events' = evs
             /\ Leave(t, a, lk, fu, LimitOf(a), clock, "unconstrained", <<>>)
        ELSE Loop(t, a, lk, fu, evs, <<>>)

(***************************************************************************)
(* Credentials: get_api_key and make_request._normalize_key.               *)
(* None is Python's None; every other value is the string itself.          *)
(***************************************************************************)
None == "<None>"

UpperCase == "ABCDEFGHIJKLMNOPQRSTUVWXYZ"

\* str.lower() on one character
LowerChar(c) ==
    IF \E i \in 1..Len(UpperCase) : SubSeq(UpperCase, i, i) = c
        THEN LET i == CHOOSE j \in 1..Len(UpperCase) : SubSeq(UpperCase, j, j) = c
             IN  SubSeq("abcdefghijklmnopqrstuvwxyz", i, i)
        ELSE c

RECURSIVE Lower(_)
Lower(k) == IF k = "" THEN "" ELSE LowerChar(SubSeq(k, 1, 1)) \o Lower(SubSeq(k, 2, Len(k)))

\* str.strip()
RECURSIVE Strip(_)
Strip(k) ==
    IF k = "" THEN ""
    ELSE IF SubSeq(k, 1, 1) = " " THEN Strip(SubSeq(k, 2, Len(k)))
    ELSE IF SubSeq(k, Len(k), Len(k)) = " " THEN Strip(SubSeq(k, 1, Len(k) - 1))
    ELSE k

Placeholders == {"", "none", "null", "false"}

\* `if x:` on an Optional[str]
Truthy(k) == k # None /\ k # ""

\* (a variant that looks for a placeholder before it trims)
normalize_key_late(k) ==
    IF ~Truthy(k) THEN None
    ELSE IF Lower(k) \in Placeholders THEN None
    ELSE Strip(k)

\* (a variant that does not recognise placeholder values)
normalize_key_keepall(k) == IF ~Truthy(k) THEN None ELSE Strip(k)

\* make_request._normalize_key (lines 170-176)
normalize_key(k) ==
    IF ~Truthy(k) THEN None
    ELSE IF Lower(Strip(k)) \in Placeholders THEN None
    ELSE Strip(k)

\* get_api_key (lines 105-120): what it returns and the warning it logs
get_api_key(e) ==
    IF Truthy(e)
        THEN IF Lower(Strip(e)) \in Placeholders
                THEN [key |-> None,
                      warning |-> <<"SEMANTIC_SCHOLAR_API_KEY is set to a placeholder value; treating as not set.">>]
                ELSE [key |-> e, warning |-> <<>>]
        ELSE [key |-> None,
              warning |-> <<"No SEMANTIC_SCHOLAR_API_KEY set. Using unauthenticated access with lower rate limits.">>]

\* The keys a caller passes as api_key_override and the process environment.
Overrides == {None, " NULL ", " KEY1 "}
Environs == {None, "False", "ENVKEY"}

\* (a variant that asks the environment first)
ResolveKey_envfirst(override, e) ==
    IF Truthy(normalize_key(get_api_key(e).key))
        THEN [key |-> normalize_key(get_api_key(e).key), warning |-> <<>>]
        ELSE [key |-> normalize_key(override), warning |-> get_api_key(e).warning]

\* line 178: `_normalize_key(api_key_override) or _normalize_key(get_api_key())`
ResolveKey(override, e) ==
    IF Truthy(normalize_key(override))
        THEN [key |-> normalize_key(override), warning |-> <<>>]
        ELSE [key |-> normalize_key(get_api_key(e).key),
              warning |-> get_api_key(e).warning]

KeyTable == [o \in Overrides |-> [e \in Environs |-> ResolveKey(o, e)]]

(***************************************************************************)
(* make_request: what it builds, logs and returns.                         *)
(***************************************************************************)
TIMEOUT == 30
BASE_URL == "https://api.semanticscholar.org/graph/v1"
UserAgent == "semantic-scholar-mcp/1.0 (+https://github.com)"
Params == "{'query': 'x'}"

\* ErrorType
RATE_LIMIT == "rate_limit"
API_ERROR == "api_error"
VALIDATION == "validation"
TIMEOUT_ERROR == "timeout"

\* The arguments of a make_request call that matter here.
Descriptor(endpoint, base_url, override) ==
    [endpoint |-> endpoint, base_url |-> base_url, override |-> override]


NoCall ==
    [endpoint |-> "", base_url |-> NoBase, override |-> None, api_key |-> None,
     authenticated |-> FALSE, client |-> 0, acquire |-> 0]

\* lines 191-194
Url(endpoint, base_url) ==
    IF SubSeq(endpoint, 1, 7) = "http://" \/ SubSeq(endpoint, 1, 8) = "https://"
        THEN endpoint
        ELSE (IF base_url # NoBase THEN base_url ELSE BASE_URL) \o endpoint

\* (a variant that sets the credential header whatever the key)
Headers_always(api_key) ==
    << <<"x-api-key", api_key>>, <<"User-Agent", UserAgent>> >>

\* lines 184-190: a dict, as the sequence of its items
Headers(api_key) ==
    IF Truthy(api_key)
        THEN << <<"x-api-key", api_key>>, <<"User-Agent", UserAgent>> >>
        ELSE << <<"User-Agent", UserAgent>> >>

\* _redact_headers (lines 139-144)
redact_headers(headers) ==
    [i \in DOMAIN headers |->
        IF headers[i][1] \in {"x-api-key", "authorization", "proxy-authorization"}
                /\ Truthy(headers[i][2])
            THEN <<headers[i][1], "***">>
            ELSE headers[i]]

\* A log record: its level, the strings formatted into it, the headers shown.
Record(level, text, headers) == [level |-> level, text |-> text, headers |-> headers]

\* logging.basicConfig(level=DEBUG if DEBUG_REQUESTS else INFO) (logger.py 8-10)
Emitted(records) ==
    {records[i] : i \in {j \in DOMAIN records : debug \/ records[j].level # "DEBUG"}}

Warnings(texts) == [i \in DOMAIN texts |-> Record("WARNING", <<texts[i]>>, <<>>)]

\* lines 184-204: what is logged on the way to client.request
RequestLog(call) ==
    (IF Truthy(call.api_key) THEN <<>>
     ELSE <<Record("DEBUG", <<"Not sending x-api-key header (no valid API key available)">>, <<>>)>>)
    \o <<Record("DEBUG",
                <<"Semantic Scholar request:", "GET", Url(call.endpoint, call.base_url), Params>>,
                redact_headers(Headers(call.api_key)))>>

\* What client.request comes back with: a response or an exception.
Response(status, text, retry_after) ==
    [kind |-> "response", status |-> status, text |-> text,
     retry_after |-> retry_after, class |-> "", message |-> ""]

Raised(class, message) ==
    [kind |-> "exception", status |-> 0, text |-> "", retry_after |-> None,
     class |-> class, message |-> message]

Responses ==
    {Response(200, "[1]", None), Response(200, "<html>", None),
     Response(404, "not found", None),
     Response(429, "slow down", "7"), Response(429, "slow down", None)}


ClientClosed ==
    Raised("RuntimeError", "Cannot send a request, as the client has been closed.")

\* asyncio.CancelledError thrown into the task while it awaits the response
Cancellations == {Raised("CancelledError", "")}

Outcomes ==
    Responses
    \cup {Raised("ReadTimeout", "The read operation timed out"),
          Raised("ConnectError", "All connection attempts failed")}
    \cup Cancellations

\* (a variant in which `except Exception` catches every exception)
IsException_all(class) == TRUE

\* isinstance(e, Exception): CancelledError, KeyboardInterrupt and SystemExit
\* derive from BaseException only
IsException(class) == class \notin {"CancelledError", "KeyboardInterrupt", "SystemExit"}

\* (a variant that takes no exception for a timeout)
IsTimeoutException_none(class) == FALSE

\* httpx.TimeoutException and its subclasses
IsTimeoutException(class) ==
    class \in {"TimeoutException", "ConnectTimeout", "ReadTimeout", "WriteTimeout",
               "PoolTimeout"}

\* Response.raise_for_status raises unless 200 <= status <= 299
IsSuccess(status) == 200 <= status /\ status <= 299

\* Response.json(): the decoded body, or the JSONDecodeError it raises
Json(text) ==
    IF text = "[1]" THEN [ok |-> TRUE, value |-> <<1>>, message |-> ""]
    ELSE IF text = "[]" THEN [ok |-> TRUE, value |-> <<>>, message |-> ""]
    ELSE [ok |-> FALSE, value |-> <<>>,
          message |-> "Expecting value: line 1 column 1 (char 0)"]

NoDetails == <<>>

\* (a variant that leaves the details out of the record)
create_error_response_bare(error_type, message, details) ==
    [error |-> [type |-> error_type, message |-> message]]

\* create_error_response (semantic_scholar_server.py 234-245)
create_error_response(error_type, message, details) ==
    [error |-> [type |-> error_type, message |-> message, details |-> details]]

\* lines 237-242
Unexpected(call, message) ==
    [result |-> create_error_response(API_ERROR, message, NoDetails),
     log |-> <<Record("ERROR", <<"Unexpected error for ", call.endpoint, ": ", message>>, <<>>)>>]

\* (a variant that drops the server's retry hint)
RateLimitDetails_nohint(call, o) ==
    [status_code |-> o.status, retry_after |-> None,
     authenticated |-> call.authenticated]

\* lines 220-224
RateLimitDetails(call, o) ==
    [status_code |-> o.status, retry_after |-> o.retry_after,
     authenticated |-> call.authenticated]

\* (a variant that leaves the response body out)
ApiErrorDetails_nobody(o) == [status_code |-> o.status]

\* line 229
ApiErrorDetails(o) == [status_code |-> o.status, response |-> o.text]

\* lines 205-242: what make_request returns and logs for an outcome
Classify(call, o) ==
    IF o.kind = "exception" /\ ~IsException(o.class)
        THEN [result |-> [raised |-> o.class], log |-> <<>>]
    ELSE IF o.kind = "exception"
        THEN IF IsTimeoutException(o.class)
                THEN [result |-> create_error_response(TIMEOUT_ERROR,
                            "Request timed out after " \o ToString(TIMEOUT) \o " seconds",
                            NoDetails),
                      log |-> <<Record("ERROR", <<"Request timeout for ", call.endpoint, ": ", o.message>>, <<>>)>>]
                ELSE Unexpected(call, o.message)
    ELSE IF IsSuccess(o.status)
        THEN IF Json(o.text).ok
                THEN [result |-> [payload |-> Json(o.text).value], log |-> <<>>]
                ELSE Unexpected(call, Json(o.text).message)
    ELSE LET log ==
                <<Record("ERROR", <<"HTTP error ", ToString(o.status), " for ",
                                    Url(call.endpoint, call.base_url), ": ", o.text>>, <<>>),
                  Record("ERROR", <<"Request headers: ">>, redact_headers(Headers(call.api_key))),
                  Record("ERROR", <<"Request params: ", Params>>, <<>>)>>
         IN  IF o.status = 429
                THEN [result |-> create_error_response(RATE_LIMIT,
                            "Rate limit exceeded. Consider using an API key for higher limits.",
                            RateLimitDetails(call, o)),
                      log |-> log]
                ELSE [result |-> create_error_response(API_ERROR,
                            "HTTP error: " \o ToString(o.status),
                            ApiErrorDetails(o)),
                      log |-> log]

(***************************************************************************)
(* Actions                                                                 *)
(***************************************************************************)
\* (a variant with one gate for all buckets: it queues while any lock is held)
Acquire_onegate(t, a) ==
    /\ pc[t] = "idle"
    /\ calls' = calls + 1
    /\ LET bucket == BucketOf(a)
           fresh == bucket \notin DOMAIN locks
           lk == IF fresh THEN locks @@ (bucket :> NewLock) ELSE locks
           evs == IF fresh THEN events @@ (bucket :> <<>>) ELSE events
       IN  IF \A b \in DOMAIN lk : LockFree(lk[b], fut)
           THEN Section(t, a, [lk EXCEPT ![bucket].locked = TRUE], fut, evs)
           ELSE /\ locks' = [lk EXCEPT ![bucket].waiters = Append(@, t)]
                /\ events' = evs
                /\ fut' = [fut EXCEPT ![t] = "pending"]
                /\ pc' = [pc EXCEPT ![t] = "waiting"]
                /\ args' = [args EXCEPT ![t] = a]
                /\ UNCHANGED <<clock, cancelReq, wakeAt, slept, history>>
    /\ UNCHANGED <<cfg, sleeper, cancels>>

\* (a variant that installs a new lock and a new log on every call)
Acquire_fresh(t, a) ==
    /\ pc[t] = "idle"
    /\ calls' = calls + 1
    /\ LET bucket == BucketOf(a)
           lk == (bucket :> NewLock) @@ locks
           evs == (bucket :> <<>>) @@ events
       IN  IF LockFree(lk[bucket], fut)
           THEN Section(t, a, [lk EXCEPT ![bucket].locked = TRUE], fut, evs)
           ELSE /\ locks' = [lk EXCEPT ![bucket].waiters = Append(@, t)]
                /\ events' = evs
                /\ fut' = [fut EXCEPT ![t] = "pending"]
                /\ pc' = [pc EXCEPT ![t] = "waiting"]
                /\ args' = [args EXCEPT ![t] = a]
                /\ UNCHANGED <<clock, cancelReq, wakeAt, slept, history>>
    /\ UNCHANGED <<cfg, sleeper, cancels>>

\* A task calls acquire (lines 76-81) and runs to its first suspension.
Acquire(t, a) ==
    /\ pc[t] = "idle"
    /\ calls' = calls + 1
    /\ LET bucket == BucketOf(a)
           fresh == bucket \notin DOMAIN locks
           lk == IF fresh THEN locks @@ (bucket :> NewLock) ELSE locks
           evs == IF fresh THEN events @@ (bucket :> <<>>) ELSE events
       IN  IF LockFree(lk[bucket], fut)
           THEN Section(t, a, [lk EXCEPT ![bucket].locked = TRUE], fut, evs)
           ELSE /\ locks' = [lk EXCEPT ![bucket].waiters = Append(@, t)]
                /\ events' = evs
                /\ fut' = [fut EXCEPT ![t] = "pending"]
                /\ pc' = [pc EXCEPT ![t] = "waiting"]
                /\ args' = [args EXCEPT ![t] = a]
                /\ UNCHANGED <<clock, cancelReq, wakeAt, slept, history>>
    /\ UNCHANGED <<cfg, sleeper, cancels>>

\* A waiter whose future got its result resumes in Lock.acquire and enters.
LockGranted(t) ==
    /\ pc[t] = "waiting"
    /\ fut[t] = "result"
    /\ ~cancelReq[t]
    /\ LET bucket == BucketOf(args[t])
           lk == [locks EXCEPT ![bucket].waiters = Without(@, t),
                               ![bucket].locked = TRUE]
       IN  Section(t, args[t], lk, [fut EXCEPT ![t] = "none"], events)
    /\ UNCHANGED <<cfg, sleeper, calls, cancels>>

\* The sleep is over: the task goes round the loop (line 88).
Wake(t) ==
    /\ pc[t] = "sleeping"
    /\ ~cancelReq[t]
    /\ clock >= wakeAt[t]
    /\ Loop(t, args[t], locks, fut, events, slept[t])
    /\ UNCHANGED <<cfg, sleeper, calls, cancels>>

\* Task.cancel() on a task suspended inside acquire.
Cancel(t) ==
    /\ pc[t] \in {"waiting", "sleeping"}
    /\ ~cancelReq[t]
    /\ cancels' = cancels + 1
    /\ cancelReq' = [cancelReq EXCEPT ![t] = TRUE]
    /\ fut' = IF fut[t] = "pending" THEN [fut EXCEPT ![t] = "cancelled"] ELSE fut
    /\ UNCHANGED <<cfg, sleeper, clock, events, locks, pc, args, wakeAt, slept,
                   calls, history>>

\* The cancelled waiter resumes in Lock.acquire: it leaves the queue and, if
\* the lock is free, passes the wake-up on.
CancelledWaiting(t) ==
    /\ pc[t] = "waiting"
    /\ cancelReq[t]
    /\ LET bucket == BucketOf(args[t])
           rest == Without(locks[bucket].waiters, t)
           fu == [fut EXCEPT ![t] = "none"]
       IN  /\ locks' = [locks EXCEPT ![bucket].waiters = rest]
           /\ fut' = IF locks[bucket].locked THEN fu ELSE WakeUpFirst(rest, fu)
    /\ pc' = [pc EXCEPT ![t] = "idle"]
    /\ args' = [args EXCEPT ![t] = NoArgs]
    /\ cancelReq' = [cancelReq EXCEPT ![t] = FALSE]
    /\ history' = Append(history,
                         Ended(args[t], LimitOf(args[t]), clock, "cancelled", <<>>))
    /\ UNCHANGED <<cfg, sleeper, clock, events, wakeAt, slept, calls, cancels>>

\* The cancelled sleeper resumes at line 100: CancelledError leaves
\* `async with`, which releases the lock.
CancelledSleeping(t) ==
    /\ pc[t] = "sleeping"
    /\ cancelReq[t]
    /\ Leave(t, args[t], locks, fut, LimitOf(args[t]), clock, "cancelled", slept[t])
    /\ UNCHANGED <<cfg, sleeper, clock, events, calls, cancels>>

\* Real time passes.  Idle time is bounded; time a sleeper waits for is not.
Tick ==
    /\ sleeper = "asyncio"
    /\ \/ clock < MaxTime
       \/ \E t \in Tasks : pc[t] = "sleeping" /\ wakeAt[t] > clock
    /\ clock' = clock + 1
    /\ UNCHANGED <<cfg, sleeper, events, locks, pc, args, fut, cancelReq,
                   wakeAt, slept, calls, cancels, history>>

(***************************************************************************)
(* The tasks of the server's event loop (server.py): run_server, the task  *)
(* of mcp.run_async(), the task of the HTTP bridge, and one shutdown task  *)
(* for each signal delivered.                                              *)
(***************************************************************************)
RunServer == <<"run_server", 0>>
Mcp == <<"mcp.run_async", 0>>
Bridge == <<"server.serve", 0>>
SignalTask(k) == <<"shutdown", k>>

Coroutines == {RunServer, Mcp, Bridge} \cup {SignalTask(k) : k \in 1..MaxSignals}

NoTask == <<"", 0>>
\* a future that is not a task: of Event.wait(), of the transport, of a socket
Future == <<"future", 0>>

\* state: "absent", "ready" (running or scheduled), "waiting", or how it
\* ended ("done", "cancelled", "failed"); at: where its coroutine stands;
\* waiter: Task._fut_waiter; must_cancel: Task._must_cancel; throw: what its
\* await gives when it resumes; todo: the rest of shutdown's `tasks` list;
\* pending: what run_server's finally block re-raises.
NotCreated ==
    [state |-> "absent", at |-> "", waiter |-> NoTask, must_cancel |-> FALSE,
     throw |-> "none", todo |-> <<>>, pending |-> "none"]

\* No make_request has been called and no client constructed.  legacy is
\* RateLimiter.__init__ of semantic_scholar_server.py (lines 209-211), with
\* what time.time() returns and the times at which acquire has returned.
DispatcherIdle ==
    /\ stop_event = None
    /\ all_tasks = [c \in Coroutines |-> NotCreated]
    /\ legacy = [time |-> 0, last_call_time |-> <<>>, admitted |-> <<>>]
    /\ http_client = 0
    /\ clients = <<>>
    /\ closers = 0
    /\ rpc = [t \in Tasks |-> "idle"]
    /\ req = [t \in Tasks |-> NoCall]
    /\ attempts = {}
    /\ returned = {}
    /\ logs = {}
    /\ dcalls = 0

Init ==
    \* each configuration under the tests' sleeper, and under asyncio.sleep
    \* the two in which every limit a caller can reach within the bounds is set
    /\ \E s \in ({<<c, "fake">> : c \in Configs}
                 \cup {<<c, "asyncio">> : c \in {PatchSharedBucket, PatchUnconstrained}}) :
           cfg = s[1] /\ sleeper = s[2]
    /\ environ = None
    /\ debug = FALSE
    /\ DispatcherIdle
    /\ clock = 0
    /\ events = <<>>
    /\ locks = <<>>
    /\ pc = [t \in Tasks |-> "idle"]
    /\ args = [t \in Tasks |-> NoArgs]
    /\ fut = [t \in Tasks |-> "none"]
    /\ cancelReq = [t \in Tasks |-> FALSE]
    /\ wakeAt = [t \in Tasks |-> 0]
    /\ slept = [t \in Tasks |-> <<>>]
    /\ calls = 0
    /\ cancels = 0
    /\ history = <<>>

\* Idle tasks are interchangeable: a new call runs in the first of them.
FirstIdle(t) == pc[t] = "idle" /\ \A u \in Tasks : u < t => pc[u] # "idle"

Next ==
    \/ \E t \in Tasks : \E a \in ConcurrentRequests :
            calls < MaxCalls /\ FirstIdle(t) /\ Acquire(t, a) /\ UNCHANGED dvars
    \/ \E t \in Tasks : LockGranted(t) /\ UNCHANGED dvars
    \/ \E t \in Tasks : Wake(t) /\ UNCHANGED dvars
    \/ \E t \in Tasks : cancels < MaxCancels /\ Cancel(t) /\ UNCHANGED dvars
    \/ \E t \in Tasks : CancelledWaiting(t) /\ UNCHANGED dvars
    \/ \E t \in Tasks : CancelledSleeping(t) /\ UNCHANGED dvars
    \/ Tick /\ UNCHANGED dvars

Spec == Init /\ [][Next]_vars

(***************************************************************************)
(* A sequential caller under the tests' clock and sleeper, as in            *)
(* test_rate_limiter.py: one acquire after the other, each awaited.        *)
(***************************************************************************)
SeqInit == Init /\ sleeper = "fake"

SeqNext ==
    \E a \in Requests : calls < MaxSeqCalls /\ Acquire(1, a) /\ UNCHANGED dvars

SeqSpec == SeqInit /\ [][SeqNext]_vars

(***************************************************************************)
(* The dispatcher: make_request around acquire, on the shared client.      *)
(* A make_request suspends inside acquire and inside client.request;       *)
(* initialize_client has no await of its own and cleanup_client suspends   *)
(* in aclose().                                                            *)
(***************************************************************************)
\* httpx.AsyncClient.aclose marks the client closed before it awaits the
\* transport; AsyncClient.send refuses a closed client.
Closed(cl, client) == cl[client] # "open"

\* (a variant that builds a client on every call)
initialize_client_always(cur, cl) ==
    [client |-> Len(cl) + 1, clients |-> Append(cl, "open")]

\* initialize_client (lines 122-130)
initialize_client(cur, cl) ==
    IF cur = 0
        THEN [client |-> Len(cl) + 1, clients |-> Append(cl, "open")]
        ELSE [client |-> cur, clients |-> cl]

Ends(t, call, o, lg) ==
    /\ returned' =
            {[task |-> t, endpoint |-> call.endpoint, base_url |-> call.base_url,
              authenticated |-> call.authenticated, client |-> call.client,
              acquire |-> call.acquire, outcome |-> o, result |-> Classify(call, o).result]}
    /\ logs' = Emitted(lg \o Classify(call, o).log)
    /\ rpc' = [rpc EXCEPT ![t] = "idle"]
    /\ req' = [req EXCEPT ![t] = NoCall]

\* lines 184-205, entered when acquire has returned: up to the suspension
\* in client.request, or to the return when the client refuses.
Send(t, call, lg) ==
    LET c == initialize_client(http_client, clients)
        sent == [call EXCEPT !.client = c.client, !.acquire = Len(history')]
    IN  /\ http_client' = c.client
        /\ clients' = c.clients
        /\ attempts' = attempts \cup
                {[task |-> t, endpoint |-> call.endpoint, base_url |-> call.base_url,
                  authenticated |-> call.authenticated, client |-> c.client,
                  closed |-> Closed(c.clients, c.client),
                  acquire |-> Len(history'), headers |-> Headers(call.api_key)]}
        /\ IF Closed(c.clients, c.client)
              THEN Ends(t, sent, ClientClosed, lg \o RequestLog(call))
              ELSE /\ rpc' = [rpc EXCEPT ![t] = "network"]
                   /\ req' = [req EXCEPT ![t] = sent]
                   /\ logs' = Emitted(lg \o RequestLog(call))
                   /\ returned' = returned
        /\ UNCHANGED <<environ, debug, closers>>

\* (a variant that does not wait for acquire to return)
Continue_eager(t, call, lg) == Send(t, call, lg)

\* After a step of acquire: it has returned (line 182) or it is suspended.
Continue(t, call, lg) ==
    IF pc'[t] = "idle"
        THEN Send(t, call, lg)
        ELSE /\ rpc' = [rpc EXCEPT ![t] = "acquiring"]
             /\ req' = [req EXCEPT ![t] = call]
             /\ logs' = Emitted(lg)
             /\ UNCHANGED <<environ, debug, http_client, clients, closers,
                            attempts, returned>>

\* make_request is called (lines 169-182) and runs to its first suspension.
MakeRequest(t, d) ==
    /\ rpc[t] = "idle"
    /\ dcalls' = dcalls + 1
    /\ LET k == KeyTable[d.override][environ]
           call == [endpoint |-> d.endpoint, base_url |-> d.base_url,
                    override |-> d.override, api_key |-> k.key,
                    authenticated |-> Truthy(k.key), client |-> 0, acquire |-> 0]
       IN  /\ Acquire(t, Request(d.endpoint, d.base_url, call.authenticated))
           /\ Continue(t, call, Warnings(k.warning))

\* acquire resumes with the lock, or after its sleep.
Granted(t) ==
    /\ rpc[t] = "acquiring"
    /\ LockGranted(t)
    /\ Continue(t, req[t], <<>>)
    /\ dcalls' = dcalls

Woken(t) ==
    /\ rpc[t] = "acquiring"
    /\ Wake(t)
    /\ Continue(t, req[t], <<>>)
    /\ dcalls' = dcalls

\* (a variant that gives the slot back when the call fails)
Respond_refund(t, o) ==
    /\ rpc[t] = "network"
    /\ Ends(t, req[t], o, <<>>)
    /\ LET bucket == history[req[t].acquire].bucket
       IN  events' =
                IF "error" \in DOMAIN Classify(req[t], o).result /\ events[bucket] # <<>>
                    THEN [events EXCEPT ![bucket] = SubSeq(@, 1, Len(@) - 1)]
                    ELSE events
    /\ UNCHANGED <<cfg, sleeper, clock, locks, pc, args, fut, cancelReq, wakeAt,
                   slept, calls, cancels, history>>
    /\ UNCHANGED <<environ, debug, http_client, clients, closers, attempts, dcalls>>

\* client.request comes back (lines 205-242).
Respond(t, o) ==
    /\ rpc[t] = "network"
    /\ Ends(t, req[t], o, <<>>)
    /\ UNCHANGED <<lvars, environ, debug, http_client, clients, closers,
                   attempts, dcalls>>

\* initialize_client called on its own (server.run_server, line 102).
InitializeClient ==
    /\ dcalls' = dcalls + 1
    /\ http_client' = initialize_client(http_client, clients).client
    /\ clients' = initialize_client(http_client, clients).clients
    /\ UNCHANGED <<lvars, environ, debug, closers, rpc, req, attempts, returned, logs>>

\* cleanup_client (lines 132-137) up to the await in aclose(): closing an
\* open client may suspend in the transport, a closed one does not.
CleanupClient ==
    /\ dcalls' = dcalls + 1
    /\ http_client # 0
    /\ clients' = [clients EXCEPT ![http_client] = "closed"]
    /\ \/ /\ clients[http_client] = "open"
          /\ closers' = closers + 1
          /\ http_client' = http_client
       \/ /\ closers' = closers
          /\ http_client' = 0
    /\ UNCHANGED <<lvars, environ, debug, rpc, req, attempts, returned, logs>>

\* aclose() has returned: line 137.
CleanupDone ==
    /\ closers > 0
    /\ closers' = closers - 1
    /\ http_client' = 0
    /\ UNCHANGED <<lvars, environ, debug, clients, rpc, req, attempts, returned,
                   logs, dcalls>>

\* The batch tools and the bridge's batch endpoints post on their own, not
\* through make_request; of what they do, the log and the shared client are
\* state here.
BatchEndpoints == {"/paper/batch", "/author/batch"}

\* The two debug records before client.post, with the headers as passed.
BatchLog(endpoint, headers) ==
    <<Record("DEBUG", <<"Semantic Scholar request:", "POST", BASE_URL \o endpoint, Params>>,
             headers),
      Record("DEBUG", <<"Semantic Scholar request body: ", "{'ids': ['1']}">>, <<>>)>>

\* `{"x-api-key": key} if key else {}`
BatchHeaders(key) == IF Truthy(key) THEN << <<"x-api-key", key>> >> ELSE <<>>

\* paper_batch_details (api/papers.py 512-526), author_batch_details
\* (api/authors.py 278-291): the key of the environment, a client of their own.
BatchTool(endpoint) ==
    /\ dcalls' = dcalls + 1
    /\ logs' = Emitted(Warnings(get_api_key(environ).warning)
                       \o BatchLog(endpoint, BatchHeaders(get_api_key(environ).key)))
    /\ UNCHANGED <<lvars, environ, debug, http_client, clients, closers, rpc, req,
                   attempts, returned>>

\* bridge.paper_batch (bridge.py 76-109), bridge.author_batch (135-168): the
\* caller's bearer token, the shared client.
BridgeBatch(endpoint, token) ==
    /\ dcalls' = dcalls + 1
    /\ http_client' = initialize_client(http_client, clients).client
    /\ clients' = initialize_client(http_client, clients).clients
    /\ logs' = Emitted(BatchLog(endpoint, BatchHeaders(token)))
    /\ UNCHANGED <<lvars, environ, debug, closers, rpc, req, attempts, returned>>

DispatchTasks == 1..2

FirstFree(t) ==
    /\ t \in DispatchTasks
    /\ rpc[t] = "idle"
    /\ \A u \in DispatchTasks : u < t => rpc[u] # "idle"

DispatchInit ==
    /\ cfg = RateLimitConfig
    /\ sleeper = "asyncio"
    /\ environ \in Environs
    /\ debug \in BOOLEAN
    /\ DispatcherIdle
    /\ clock = 0
    /\ events = <<>>
    /\ locks = <<>>
    /\ pc = [t \in Tasks |-> "idle"]
    /\ args = [t \in Tasks |-> NoArgs]
    /\ fut = [t \in Tasks |-> "none"]
    /\ cancelReq = [t \in Tasks |-> FALSE]
    /\ wakeAt = [t \in Tasks |-> 0]
    /\ slept = [t \in Tasks |-> <<>>]
    /\ calls = 0
    /\ cancels = 0
    /\ history = <<>>

DispatchNext ==
    \/ \E t \in Tasks :
       \E d \in ({Descriptor("/paper/search", NoBase, o) : o \in Overrides}
                   \cup {Descriptor("/paper/1", NoBase, " KEY1 ")}) :
            dcalls < MaxDispatch /\ FirstFree(t) /\ MakeRequest(t, d) /\ UNCHANGED svars
    \/ \E t \in Tasks : Granted(t) /\ UNCHANGED svars
    \/ \E t \in Tasks : Woken(t) /\ UNCHANGED svars
    \/ \E t \in Tasks : \E o \in Outcomes : Respond(t, o) /\ UNCHANGED svars
    \/ dcalls < MaxDispatch /\ InitializeClient /\ UNCHANGED svars
    \/ \E e \in BatchEndpoints : dcalls < MaxDispatch /\ BatchTool(e) /\ UNCHANGED svars
    \/ \E e \in BatchEndpoints : \E k \in {None, "KEY1"} :
            dcalls < MaxDispatch /\ BridgeBatch(e, k) /\ UNCHANGED svars
    \/ dcalls < MaxDispatch /\ CleanupClient /\ UNCHANGED svars
    \/ CleanupDone /\ UNCHANGED svars
    \/ Tick /\ UNCHANGED dvars

DispatchSpec == DispatchInit /\ [][DispatchNext]_vars

(***************************************************************************)
(* What the properties below read off a step or a state.                   *)
(***************************************************************************)
Last(seq) == seq[Len(seq)]

Log(evs, bucket) == IF bucket \in DOMAIN evs THEN evs[bucket] ELSE <<>>

IsSuffix(s, t) == Len(s) <= Len(t) /\ s = SubSeq(t, Len(t) - Len(s) + 1, Len(t))

Max(x, y) == IF x >= y THEN x ELSE y

\* The events of a log later than the cutoff.
Recent(log, cutoff) == SelectSeq(log, LAMBDA x : x > cutoff)

\* A step in which a call ends, and one in which it ends admitted.
EndsCall == Len(history') = Len(history) + 1

Admits == EndsCall /\ Last(history').outcome = "admitted"

\* The tasks inside the locked section of a bucket.
Inside(bucket) == {t \in Tasks : pc[t] = "sleeping" /\ BucketOf(args[t]) = bucket}

Waiting(bucket) == {t \in Tasks : pc[t] = "waiting" /\ BucketOf(args[t]) = bucket}

\* The admissions into a bucket, as positions of the history.
AdmissionsInto(bucket) ==
    {i \in DOMAIN history :
        history[i].outcome = "admitted" /\ history[i].bucket = bucket}

\* No admission into the bucket closes a window of its limit's length that
\* holds more admissions than the limit allows.
WindowBounded(bucket) ==
    \A i \in AdmissionsInto(bucket) :
        Cardinality({j \in AdmissionsInto(bucket) :
                        /\ j <= i
                        /\ history[j].at > history[i].at - history[i].limit[2]})
            <= history[i].limit[1]

\* The calls that got as far as the log of a bucket, ended or not, all came
\* with one limit.  (A call of the other tier prunes the log with its own
\* window whether or not it is admitted.)
CallsInto(bucket) ==
    {i \in DOMAIN history :
        history[i].bucket = bucket /\ history[i].outcome # "unconstrained"}

OneLimit(bucket) ==
    /\ \A i, j \in CallsInto(bucket) : history[i].limit = history[j].limit
    /\ \A t \in Tasks : \A i \in CallsInto(bucket) :
            (pc[t] # "idle" /\ BucketOf(args[t]) = bucket)
                => LimitOf(args[t]) = history[i].limit

(***************************************************************************)
(* C1.  When an acquire with a positive limit (N, W) returns at clock value *)
(* now, the bucket's log holds at most N events later than now - W; and an *)
(* event is appended only by an admission, which finds fewer than N events *)
(* in the pruned log and appends its own timestamp to it.                  *)
(***************************************************************************)
C1_LogWithinLimit ==
    [][ /\ Admits =>
            LET h == Last(history')
                before == Log(events, h.bucket)
                after == events'[h.bucket]
                pruned == Recent(before, h.at - h.limit[2])
            IN  /\ h.limit[1] > 0 /\ h.limit[2] > 0
                /\ Len(Recent(after, h.at - h.limit[2])) <= h.limit[1]
                /\ Len(pruned) < h.limit[1]
                /\ after = Append(pruned, h.at)
        /\ \A b \in DOMAIN events' :
                ~IsSuffix(events'[b], Log(events, b))
                    => Admits /\ Last(history').bucket = b
      ]_vars

\* A call that found the log of a limit of two full was admitted after its sleep.
C1_Witness ==
    \E i \in DOMAIN history :
        /\ history[i].outcome = "admitted"
        /\ history[i].limit[1] = 2
        /\ history[i].slept # <<>>
        /\ sleeper = "asyncio"

(***************************************************************************)
(* C2.  An acquire with limit (N, W) that finds N or more events in the    *)
(* log is not admitted before the N-th most recent of them is W old: after *)
(* N admissions at time t the next one does not return before t + W.  With *)
(* the tests' clock and sleeper it returns exactly then, after one sleep   *)
(* of W - (now - t).                                                       *)
(***************************************************************************)
C2_NotBeforeWindowEnds ==
    [][ Admits =>
            LET h == Last(history')
                N == h.limit[1]
                W == h.limit[2]
                before == Log(events, h.bucket)
                live == Recent(before, clock - W)
            IN  /\ Len(before) >= N =>
                    /\ h.at >= before[Len(before) - N + 1] + W
                    /\ sleeper = "fake" =>
                            h.at = Max(clock, before[Len(before) - N + 1] + W)
                /\ ( /\ sleeper = "fake"
                     /\ Len(live) >= N
                     /\ \A i \in DOMAIN live : live[i] = live[1] )
                    => /\ h.at = live[1] + W
                       /\ h.slept = <<W - (clock - live[1])>>
      ]_vars

\* The shared-bucket test: two admissions at 0, the third at 10 after one sleep of 10.
C2_Witness ==
    /\ sleeper = "fake"
    /\ Len(history) = 3
    /\ \A i \in DOMAIN history :
            /\ history[i].outcome = "admitted"
            /\ history[i].bucket = "/default"
            /\ history[i].limit = <<2, 10>>
    /\ history[1].at = 0 /\ history[2].at = 0 /\ history[3].at = 10
    /\ history[3].slept = <<10>>

(***************************************************************************)
(* C3.  At most one task at a time is inside the locked section of a       *)
(* bucket, and it holds the bucket's lock; so the acquirers of one bucket, *)
(* all called with one limit, never get more than max_requests admissions  *)
(* into any window.                                                        *)
(***************************************************************************)
C3_OneInsideSection ==
    \A b \in DOMAIN locks :
        /\ Cardinality(Inside(b)) <= 1
        /\ Inside(b) # {} => locks[b].locked
        /\ OneLimit(b) => WindowBounded(b)

\* One task sleeps in the section while another queues for the same bucket.
C3_Witness ==
    \E b \in DOMAIN locks :
        /\ Inside(b) # {}
        /\ Waiting(b) # {}
        /\ AdmissionsInto(b) # {}

(***************************************************************************)
(* C4.  Cancelling a task suspended inside acquire, waiting for the lock   *)
(* or sleeping with it, records no event: every event of a log is the      *)
(* timestamp of an admission.  The cancelled sleeper releases the lock,    *)
(* the cancelled waiter leaves the queue, and the lock is never left       *)
(* taken with no task inside nor free with no waiter able to take it.      *)
(***************************************************************************)
NoPhantomEvent ==
    \A b \in DOMAIN events :
        \A i \in DOMAIN events[b] :
            Cardinality({k \in DOMAIN events[b] : events[b][k] = events[b][i]})
                <= Cardinality({j \in AdmissionsInto(b) :
                                    history[j].at = events[b][i]})

NoLostWakeup ==
    \A b \in DOMAIN locks :
        /\ locks[b].locked => Inside(b) # {}
        /\ (~locks[b].locked /\ Waiting(b) # {})
            => \E t \in Waiting(b) : fut[t] = "result" \/ cancelReq[t]

CancelStep ==
    /\ cancels' # cancels =>
            events' = events /\ locks' = locks /\ history' = history
    /\ (EndsCall /\ Last(history').outcome = "cancelled") =>
            /\ events' = events
            /\ \A t \in Tasks :
                    (pc[t] # "idle" /\ pc'[t] = "idle") =>
                        LET b == BucketOf(args[t])
                        IN  /\ cancelReq[t]
                            /\ pc[t] = "sleeping" => ~locks'[b].locked
                            /\ pc[t] = "waiting" =>
                                    /\ locks'[b].locked = locks[b].locked
                                    /\ locks'[b].waiters = Without(locks[b].waiters, t)

C4_CancelIsClean == [](NoPhantomEvent /\ NoLostWakeup) /\ [][CancelStep]_vars

\* A sleeper was cancelled and a later acquirer of its bucket was admitted.
C4_Witness ==
    \E i, j \in DOMAIN history :
        /\ i < j
        /\ history[i].outcome = "cancelled"
        /\ history[i].slept # <<>>
        /\ history[j].outcome = "admitted"
        /\ history[j].bucket = history[i].bucket
        /\ history[j].slept # <<>>

(***************************************************************************)
(* The concurrent callers under fair scheduling: the event loop runs every *)
(* task that is ready, and the clock advances.                             *)
(***************************************************************************)
FairSpec ==
    /\ Spec
    /\ WF_vars(Tick /\ UNCHANGED dvars)
    /\ \A t \in Tasks :
            /\ WF_vars(LockGranted(t) /\ UNCHANGED dvars)
            /\ WF_vars(Wake(t) /\ UNCHANGED dvars)
            /\ WF_vars(CancelledWaiting(t) /\ UNCHANGED dvars)
            /\ WF_vars(CancelledSleeping(t) /\ UNCHANGED dvars)

(***************************************************************************)
(* C5.  Every acquire call returns: a task suspended in acquire is         *)
(* eventually out of it, and a call ends cancelled only if it was          *)
(* cancelled, so every other call ends admitted or unconstrained.          *)
(***************************************************************************)
C5_EveryAcquireReturns ==
    /\ \A t \in Tasks : (pc[t] # "idle") ~> (pc[t] = "idle")
    /\ [](Cardinality({i \in DOMAIN history : history[i].outcome = "cancelled"})
            <= cancels)

\* Three callers of one bucket all came through, the later ones after waiting.
C5_Witness ==
    /\ Len(history) = MaxCalls
    /\ \A t \in Tasks : pc[t] = "idle"
    /\ \A i \in DOMAIN history :
            /\ history[i].outcome = "admitted"
            /\ history[i].bucket = history[1].bucket
    /\ \E i \in DOMAIN history : history[i].slept # <<>>
    /\ sleeper = "asyncio"

(***************************************************************************)
(* The bucket enumeration and the category rules, in their order.          *)
(***************************************************************************)
CanonicalKeys ==
    {"/recommendations", "/author/search", "/paper/search", "/paper/batch",
     "/author/batch", "/default"}

\* <<what is searched, what for, the bucket>>
Rules ==
    << <<"base_url", "recommendations", "/recommendations">>,
       <<"endpoint", "recommendations", "/recommendations">>,
       <<"endpoint", "/author/search", "/author/search">>,
       <<"endpoint", "/paper/search", "/paper/search">>,
       <<"endpoint", "/paper/batch", "/paper/batch">>,
       <<"endpoint", "/author/batch", "/author/batch">> >>

RuleMatches(rule, endpoint, base_url) ==
    Contains(rule[2], IF rule[1] = "base_url" THEN base_url ELSE endpoint)

Matching(endpoint, base_url) ==
    {i \in DOMAIN Rules : RuleMatches(Rules[i], endpoint, base_url)}

FirstMatch(endpoint, base_url) ==
    LET m == Matching(endpoint, base_url)
    IN  IF m = {} THEN "/default"
        ELSE Rules[CHOOSE i \in m : \A j \in m : i <= j][3]

\* Two calls of the sequential caller, one right after the other, both admitted.
Consecutive(i) ==
    /\ i \in DOMAIN history /\ i + 1 \in DOMAIN history
    /\ history[i].outcome = "admitted"
    /\ history[i + 1].outcome = "admitted"

(***************************************************************************)
(* C6.  _bucket_key returns one of the six canonical keys for every        *)
(* request; every endpoint that matches no category is in /default, its    *)
(* admission is recorded in the one log of /default, and the admissions    *)
(* of such endpoints under one limit stay within that limit together.      *)
(***************************************************************************)
C6_DefaultBucketShared ==
    /\ DOMAIN events \subseteq CanonicalKeys
    /\ DOMAIN locks = DOMAIN events
    /\ \A i \in DOMAIN history :
            /\ history[i].bucket \in CanonicalKeys
            /\ history[i].bucket \in DOMAIN events
            /\ Matching(history[i].endpoint, history[i].base_url) = {}
                    => history[i].bucket = "/default"
    /\ (history # <<>> /\ Last(history).outcome = "admitted")
            => Last(events[Last(history).bucket]) = Last(history).at
    /\ "/default" \in DOMAIN events /\ OneLimit("/default")
            => WindowBounded("/default")

\* The shared-bucket test: three ID-bearing paths, the third held back to 10.
C6_Witness ==
    /\ Len(history) = 3
    /\ history[1].endpoint = "/paper/1" /\ history[1].at = 0
    /\ history[2].endpoint = "/paper/2" /\ history[2].at = 0
    /\ history[3].endpoint = "/paper/3" /\ history[3].at = 10
    /\ \A i \in DOMAIN history :
            history[i].bucket = "/default" /\ history[i].limit = <<2, 10>>
    /\ events["/default"] = <<10>>

(***************************************************************************)
(* C7.  The bucket of a request is that of the first rule that matches, in *)
(* the order: recommendations base URL, recommendations endpoint,          *)
(* /author/search, /paper/search, /paper/batch, /author/batch, else        *)
(* /default.                                                               *)
(***************************************************************************)
C7_FirstMatchWins ==
    \A i \in DOMAIN history :
        LET h == history[i]
        IN  /\ h.bucket = FirstMatch(h.endpoint, h.base_url)
            /\ (h.endpoint = "/paper/search" /\ h.base_url = RecommendationsBase)
                    => h.bucket = "/recommendations"
            /\ (h.endpoint = "/author/search/paper/batch" /\ h.base_url = NoBase)
                    => h.bucket = "/author/search"
            /\ (h.endpoint \in {"/paper/search/bulk", "/paper/search/match"}
                    /\ h.base_url = NoBase)
                    => h.bucket = "/paper/search"

\* Requests that match several rules were resolved.
C7_Witness ==
    /\ \E i \in DOMAIN history :
            /\ history[i].endpoint = "/author/search/paper/batch"
            /\ Cardinality(Matching(history[i].endpoint, history[i].base_url)) = 2
            /\ history[i].bucket = "/author/search"
    /\ \E i \in DOMAIN history :
            /\ history[i].endpoint = "/paper/search"
            /\ history[i].base_url = RecommendationsBase
            /\ history[i].bucket = "/recommendations"
    /\ \E i \in DOMAIN history : history[i].endpoint = "/paper/search/bulk"

(***************************************************************************)
(* C8.  Every acquire under the recommendations base URL uses the one      *)
(* /recommendations bucket whatever its path, and, when it is              *)
(* authenticated, the recommendations limit; two authenticated acquires    *)
(* in a row under that base URL with a limit of one request are admitted   *)
(* exactly a window apart: 3 clock units with the limit (1, 3).            *)
(***************************************************************************)
UnderRecommendationsBase(h) == Contains("recommendations", h.base_url)

RecommendationsSpacing ==
    \A i \in DOMAIN history :
        ( /\ Consecutive(i)
          /\ UnderRecommendationsBase(history[i])
          /\ UnderRecommendationsBase(history[i + 1])
          /\ history[i].authenticated /\ history[i + 1].authenticated
          /\ history[i + 1].limit[1] = 1 )
        => /\ history[i + 1].at - history[i].at = history[i + 1].limit[2]
           /\ history[i + 1].limit = <<1, 3>>
                   => history[i + 1].at - history[i].at = 3

C8_RecommendationsBucket ==
    /\ \A i \in DOMAIN history :
            UnderRecommendationsBase(history[i]) =>
                /\ history[i].bucket = "/recommendations"
                /\ history[i].authenticated
                        => history[i].limit = cfg.RECOMMENDATIONS_LIMIT
    /\ RecommendationsSpacing

\* The claim as it was made: the recommendations limit for every such acquire.
C8_AnyTierRecommendationsLimit ==
    /\ \A i \in DOMAIN history :
            UnderRecommendationsBase(history[i]) =>
                /\ history[i].bucket = "/recommendations"
                /\ history[i].limit = cfg.RECOMMENDATIONS_LIMIT
    /\ RecommendationsSpacing

\* The recommendations test: two sub-paths, admitted at 0 and at 3.
C8_Witness ==
    /\ Len(history) = 2
    /\ history[1].endpoint = "/papers/forpaper/abc"
    /\ history[2].endpoint = "/papers/forpaper/def"
    /\ \A i \in DOMAIN history :
            /\ history[i].base_url = RecommendationsBase
            /\ history[i].authenticated
            /\ history[i].limit = <<1, 3>>
    /\ history[1].at = 0 /\ history[2].at = 3
    /\ history[2].slept = <<3>>

(***************************************************************************)
(* C9.  An acquire with authenticated = False gets the unauthenticated     *)
(* limit in every bucket; two such acquires in a row on one bucket with a  *)
(* limit of one request are admitted exactly a window apart: 5 clock       *)
(* units with the limit (1, 5).                                            *)
(***************************************************************************)
C9_UnauthenticatedLimit ==
    /\ \A i \in DOMAIN history :
            ~history[i].authenticated
                => history[i].limit = cfg.UNAUTHENTICATED_LIMIT
    /\ \A i \in DOMAIN history :
            ( /\ Consecutive(i)
              /\ ~history[i].authenticated /\ ~history[i + 1].authenticated
              /\ history[i].bucket = history[i + 1].bucket
              /\ history[i + 1].limit[1] = 1 )
            => /\ history[i + 1].at - history[i].at = history[i + 1].limit[2]
               /\ history[i + 1].limit = <<1, 5>>
                       => history[i + 1].at - history[i].at = 5

\* The unauthenticated test: /paper/search twice, admitted at 0 and at 5.
C9_Witness ==
    /\ cfg = PatchUnauthenticated
    /\ Len(history) = 2
    /\ \A i \in DOMAIN history :
            /\ history[i].endpoint = "/paper/search"
            /\ ~history[i].authenticated
            /\ history[i].limit = <<1, 5>>
    /\ history[1].at = 0 /\ history[2].at = 5

(***************************************************************************)
(* C10.  For an authenticated acquire the buckets of the restricted list   *)
(* get their category's limit: /paper/batch the batch limit, /paper/search *)
(* the search limit, /recommendations the recommendations limit.  The      *)
(* buckets /author/search, /author/batch and /default get the default      *)
(* limit.                                                                  *)
(***************************************************************************)
C10_RestrictedListLimits ==
    \A i \in DOMAIN history :
        LET h == history[i]
        IN  h.authenticated =>
                /\ h.bucket = "/paper/batch" => h.limit = cfg.BATCH_LIMIT
                /\ h.bucket = "/paper/search" => h.limit = cfg.SEARCH_LIMIT
                /\ h.bucket = "/recommendations"
                        => h.limit = cfg.RECOMMENDATIONS_LIMIT
                /\ h.bucket \in {"/author/search", "/author/batch", "/default"}
                        => h.limit = cfg.DEFAULT_LIMIT

\* The claim as it was made: the author buckets get the category limits too.
C10_EveryCategoryLimit ==
    \A i \in DOMAIN history :
        LET h == history[i]
        IN  h.authenticated =>
                /\ h.bucket \in {"/paper/batch", "/author/batch"}
                        => h.limit = cfg.BATCH_LIMIT
                /\ h.bucket \in {"/paper/search", "/author/search"}
                        => h.limit = cfg.SEARCH_LIMIT
                /\ h.bucket = "/recommendations"
                        => h.limit = cfg.RECOMMENDATIONS_LIMIT
                /\ h.bucket = "/default" => h.limit = cfg.DEFAULT_LIMIT

\* Authenticated calls of a restricted bucket, an author bucket and /default.
C10_Witness ==
    /\ cfg = PatchUnconstrained
    /\ \E i \in DOMAIN history :
            /\ history[i].authenticated
            /\ history[i].bucket = "/paper/batch"
            /\ history[i].limit = <<0, 1>>
    /\ \E i \in DOMAIN history :
            /\ history[i].authenticated
            /\ history[i].bucket = "/author/batch"
            /\ history[i].limit = <<10, 1>>
    /\ \E i \in DOMAIN history :
            /\ history[i].authenticated
            /\ history[i].bucket = "/recommendations"
            /\ history[i].limit = <<1, 3>>

(***************************************************************************)
(* C11.  An acquire whose limit has a component <= 0 is unconstrained: it  *)
(* is never suspended, neither asleep nor waiting behind another acquirer  *)
(* of its bucket, and it returns without recording an event.               *)
(***************************************************************************)
UnconstrainedSuspended ==
    {t \in Tasks : pc[t] # "idle" /\ Unconstrained(LimitOf(args[t]))}

UnconstrainedStep ==
    (EndsCall /\ Last(history').outcome = "unconstrained")
        => /\ Last(history').slept = <<>>
           /\ \A b \in DOMAIN events : events'[b] = events[b]

C11_UnconstrainedNeverSuspended ==
    [](UnconstrainedSuspended = {}) /\ [][UnconstrainedStep]_vars

\* What does hold: the unconstrained acquire never sleeps and records nothing.
C11_NoSleepNoEvent ==
    [](\A t \in UnconstrainedSuspended : pc[t] = "waiting")
        /\ [][UnconstrainedStep]_vars

\* An unconstrained acquire queued behind a sleeper of the other tier.
C11_Witness ==
    \E t, u \in Tasks :
        /\ pc[t] = "waiting" /\ Unconstrained(LimitOf(args[t]))
        /\ pc[u] = "sleeping" /\ BucketOf(args[u]) = BucketOf(args[t])

(***************************************************************************)
(* C12.  Buckets are independent.  Every step of acquire concerns one      *)
(* bucket and changes the log and the lock of no other; and an acquire on  *)
(* a bucket with no other acquirer in it and room in its log is admitted   *)
(* in the step that calls it, whatever is suspended in other buckets.      *)
(***************************************************************************)
TaskState(t) == <<pc[t], args[t], fut[t], cancelReq[t], wakeAt[t], slept[t]>>

ActingBuckets ==
    {BucketOf(args[t]) : t \in {u \in Tasks : pc[u] # "idle" /\ TaskState(u)' # TaskState(u)}}
        \cup {BucketOf(args'[t]) : t \in {u \in Tasks : pc'[u] # "idle" /\ TaskState(u)' # TaskState(u)}}
        \cup (IF EndsCall THEN {Last(history').bucket} ELSE {})

OthersUntouched ==
    /\ Cardinality(ActingBuckets) <= 1
    /\ \A b \in DOMAIN locks' :
            b \notin ActingBuckets =>
                /\ b \in DOMAIN locks
                /\ locks'[b] = locks[b]
                /\ events'[b] = events[b]

\* Nobody else is in the bucket and its log, pruned for this limit, has room.
FreeCapacity(bucket, lim) ==
    /\ Inside(bucket) = {} /\ Waiting(bucket) = {}
    /\ ~Unconstrained(lim)
    /\ CanAdmit(Prune(Log(events, bucket), clock - lim[2]), lim[1])

AdmittedWithoutWaiting ==
    \A t \in Tasks :
        (pc[t] = "idle" /\ pc'[t] # "idle")
            => ~FreeCapacity(BucketOf(args'[t]), LimitOf(args'[t]))

C12_BucketsIndependent == [][OthersUntouched /\ AdmittedWithoutWaiting]_vars

\* An admission into one bucket made while a task sleeps in another.
C12_Witness ==
    \E t \in Tasks :
        /\ pc[t] = "sleeping"
        /\ slept[t] # <<>>
        /\ history # <<>>
        /\ Last(history).outcome = "admitted"
        /\ Last(history).bucket # BucketOf(args[t])
        /\ Last(history).at > wakeAt[t] - Last(slept[t])
        /\ Last(history).at < wakeAt[t]

(***************************************************************************)
(* C13.  In make_request the tier is resolved first, then acquire is       *)
(* awaited, then the HTTP call is made, then its outcome is classified:    *)
(* every call of client.request follows exactly one completed acquire of   *)
(* its own, made with the call's endpoint, base URL and tier, and no task  *)
(* is in client.request while its acquire has not returned.                *)
(***************************************************************************)
AcquiredFor(a) ==
    /\ a.acquire \in DOMAIN history
    /\ history[a.acquire].endpoint = a.endpoint
    /\ history[a.acquire].base_url = a.base_url
    /\ history[a.acquire].authenticated = a.authenticated
    /\ history[a.acquire].outcome \in {"admitted", "unconstrained"}

C13_AcquireBeforeRequest ==
    /\ \A a \in attempts : AcquiredFor(a)
    /\ \A a, b \in attempts : a.acquire = b.acquire => a = b
    /\ Cardinality(attempts) = Len(history)
    /\ \A t \in Tasks :
            /\ rpc[t] = "network" =>
                    /\ pc[t] = "idle"
                    /\ \E a \in attempts :
                            a.task = t /\ ~a.closed /\ a.endpoint = req[t].endpoint
            /\ rpc[t] = "acquiring" <=> pc[t] # "idle"
            /\ rpc[t] = "acquiring" =>
                    /\ args[t] = Request(req[t].endpoint, req[t].base_url,
                                         req[t].authenticated)
                    /\ req[t].authenticated
                            = Truthy(KeyTable[req[t].override][environ].key)
    /\ \A r \in returned :
            \E a \in attempts :
                a.task = r.task /\ a.endpoint = r.endpoint /\ a.client = r.client

\* A request on the wire whose acquire had to sleep first.
C13_Witness ==
    \E t \in Tasks : \E a \in attempts :
        /\ rpc[t] = "network"
        /\ a.task = t /\ ~a.closed
        /\ AcquiredFor(a)
        /\ history[a.acquire].slept # <<>>
        /\ Cardinality(attempts) >= 2

(***************************************************************************)
(* C14.  A 429 response makes make_request return an error of type         *)
(* rate_limit whose details carry the response's retry-after header, None  *)
(* when the header is absent, and the tier with which the call was         *)
(* admitted by the rate limiter.                                           *)
(***************************************************************************)
Is429(r) == r.outcome.kind = "response" /\ r.outcome.status = 429

C14_RateLimitDetails ==
    \A r \in returned :
        Is429(r) =>
            /\ r.result.error.type = "rate_limit"
            /\ r.result.error.details.retry_after = r.outcome.retry_after
            /\ r.result.error.details.status_code = 429
            /\ r.acquire \in DOMAIN history
            /\ r.result.error.details.authenticated = history[r.acquire].authenticated

\* 429 with the hint for an authenticated call, and without it for another.
C14_Witness ==
    \E r \in returned :
        /\ Is429(r)
        /\ r.result.error.details.retry_after = "7"
        /\ r.result.error.details.authenticated
        /\ history[r.acquire].authenticated
        /\ \E i \in DOMAIN history : ~history[i].authenticated

(***************************************************************************)
(* C15.  A timeout of the transport in client.request is returned as an    *)
(* error of type timeout whose message names the configured timeout; it is *)
(* never returned as api_error, and nothing but a timeout is returned as   *)
(* timeout.                                                                *)
(***************************************************************************)
TimedOut(r) ==
    r.outcome.kind = "exception"
        /\ r.outcome.class \in {"TimeoutException", "ConnectTimeout", "ReadTimeout",
                                "WriteTimeout", "PoolTimeout"}

C15_TimeoutClassified ==
    \A r \in returned :
        /\ TimedOut(r) =>
                /\ r.result.error.type = "timeout"
                /\ Contains(ToString(TIMEOUT), r.result.error.message)
                /\ r.result.error.message = "Request timed out after 30 seconds"
        /\ ("error" \in DOMAIN r.result /\ r.result.error.type = "timeout")
                => TimedOut(r)

C15_Witness ==
    \E r \in returned :
        /\ r.outcome.class = "ReadTimeout"
        /\ r.result.error.type = "timeout"

(***************************************************************************)
(* C16.  A non-2xx response other than 429 is returned as api_error with   *)
(* the status code and the raw body in the details; an exception of the    *)
(* transport that is not a timeout is returned as api_error with the       *)
(* exception's message; a 2xx response whose body is JSON is returned as   *)
(* the decoded body, and one whose body is not JSON as api_error with the  *)
(* decoder's message.                                                      *)
(***************************************************************************)
IsResponse(r) == r.outcome.kind = "response"

Is2xx(r) == IsResponse(r) /\ r.outcome.status \in 200..299

IsTransportFailure(r) ==
    r.outcome.kind = "exception" /\ r.outcome.class # "CancelledError" /\ ~TimedOut(r)

\* What the bodies of the model decode to.
Decoded == [text \in {"[1]", "[]"} |-> IF text = "[1]" THEN <<1>> ELSE <<>>]

ErrorsAsApiError ==
    \A r \in returned :
        /\ (IsResponse(r) /\ ~Is2xx(r) /\ ~Is429(r)) =>
                /\ DOMAIN r.result = {"error"}
                /\ r.result.error.type = "api_error"
                /\ r.result.error.details
                        = [status_code |-> r.outcome.status, response |-> r.outcome.text]
        /\ IsTransportFailure(r) =>
                /\ DOMAIN r.result = {"error"}
                /\ r.result.error.type = "api_error"
                /\ r.result.error.message = r.outcome.message

C16_ApiErrorOrPayload ==
    /\ ErrorsAsApiError
    /\ \A r \in returned :
            Is2xx(r) =>
                IF r.outcome.text \in DOMAIN Decoded
                    THEN r.result = [payload |-> Decoded[r.outcome.text]]
                    ELSE /\ DOMAIN r.result = {"error"}
                         /\ r.result.error.type = "api_error"
                         /\ r.result.error.message
                                = "Expecting value: line 1 column 1 (char 0)"

\* The claim as it was made: every 2xx response gives the decoded body.
C16_Every2xxDecoded ==
    /\ ErrorsAsApiError
    /\ \A r \in returned : Is2xx(r) => DOMAIN r.result = {"payload"}

C16_Witness ==
    \E r \in returned :
        /\ r.outcome.status = 404
        /\ r.result.error.type = "api_error"
        /\ r.result.error.details.response = "not found"

(***************************************************************************)
(* C17.  For every HTTP status, timeout and exception of the transport     *)
(* make_request returns; what it returns is the decoded payload or a       *)
(* record {error: {type, message, details}} with type rate_limit,          *)
(* api_error or timeout, never validation.                                 *)
(***************************************************************************)
WellFormed(result) ==
    \/ DOMAIN result = {"payload"}
    \/ /\ DOMAIN result = {"error"}
       /\ DOMAIN result.error = {"type", "message", "details"}
       /\ result.error.type \in {"rate_limit", "api_error", "timeout"}
       /\ result.error.type # "validation"

C17_AlwaysWellFormed ==
    \A r \in returned :
        /\ r.outcome.class # "CancelledError" => WellFormed(r.result)
        /\ "raised" \in DOMAIN r.result => r.outcome.class = "CancelledError"

\* An exception of the transport came back as a record.
C17_Witness ==
    \E r \in returned :
        /\ r.outcome.class = "ConnectError"
        /\ WellFormed(r.result)
        /\ r.result.error.details = <<>>

(***************************************************************************)
(* C18.  No log record emitted on a request path (make_request, the batch  *)
(* tools, the bridge's batch endpoints) contains the credential value.     *)
(***************************************************************************)
Secrets == {"KEY1", "ENVKEY"}

Mentions(rec, secret) ==
    \/ \E i \in DOMAIN rec.text : Contains(secret, rec.text[i])
    \/ \E i \in DOMAIN rec.headers : Contains(secret, rec.headers[i][2])

C18_NoCredentialInLogs ==
    \A rec \in logs : \A secret \in Secrets : ~Mentions(rec, secret)

\* What does hold: the records of make_request (the GET requests of the
\* model) show the key as "***".
C18_MakeRequestRedacts ==
    \A rec \in logs :
        (Len(rec.text) < 2 \/ rec.text[2] # "POST")
            => \A secret \in Secrets : ~Mentions(rec, secret)

\* A debug record of a batch path with the key in its headers.
C18_Witness ==
    \E rec \in logs :
        /\ rec.level = "DEBUG"
        /\ Len(rec.text) >= 2
        /\ rec.text[2] = "POST"
        /\ rec.headers = << <<"x-api-key", "ENVKEY">> >>

(***************************************************************************)
(* C19.  While no client has been closed, at most one client has been      *)
(* constructed, whatever the interleaving of initialize_client and         *)
(* make_request calls, and every caller got that one client.               *)
(***************************************************************************)
NoneClosed == \A c \in DOMAIN clients : clients[c] = "open"

C19_OneClient ==
    NoneClosed =>
        /\ Len(clients) <= 1
        /\ http_client \in {0, Len(clients)}
        /\ \A a \in attempts : a.client = 1 /\ http_client = 1
        /\ \A t \in Tasks : rpc[t] = "network" => req[t].client = 1

\* Two requests in flight at once, both on the one client.
C19_Witness ==
    /\ NoneClosed
    /\ Len(clients) = 1
    /\ \A t \in DispatchTasks : rpc[t] = "network" /\ req[t].client = 1
    /\ dcalls = MaxDispatch

(***************************************************************************)
(* C20.  Whatever the interleaving of make_request with cleanup_client, no *)
(* call of make_request obtains, or sends a request on, a client whose     *)
(* close has started.                                                      *)
(***************************************************************************)
C20_NeverAClosedClient ==
    \A a \in attempts : ~a.closed

\* A make_request that got the client a suspended cleanup_client is closing.
C20_Witness ==
    /\ closers > 0
    /\ \E a \in attempts : a.closed /\ a.client = http_client
    /\ \E r \in returned :
            /\ r.outcome = ClientClosed
            /\ r.result.error.type = "api_error"

(***************************************************************************)
(* C21.  Whatever the order of cleanup_client calls and dispatches, one    *)
(* client is constructed in the life of the process and it is closed once: *)
(* aclose() is never called on a client that is already closed, and no     *)
(* client is constructed after a cleanup_client.                           *)
(***************************************************************************)
\* A step of cleanup_client that calls aclose() on a closed client.
ClosesAgain ==
    /\ http_client # 0
    /\ clients[http_client] = "closed"
    /\ dcalls' = dcalls + 1
    /\ clients' = clients
    /\ http_client' = 0

C21_OneClientClosedOnce ==
    /\ [](Len(clients) <= 1)
    /\ [][~ClosesAgain]_vars

\* The first client was closed and a later call constructed a second one.
C21_Witness ==
    /\ Len(clients) = 2
    /\ clients[1] = "closed"
    /\ clients[2] = "open"
    /\ http_client = 2

(***************************************************************************)
(* C22.  make_request passes the authenticated tier to acquire exactly     *)
(* when the override, or else the process credential, is a usable key: one *)
(* that is not missing and is not "", "none", "null" or "false" once       *)
(* trimmed and lower-cased.  Otherwise the unauthenticated limit applies.  *)
(***************************************************************************)
IsSentinel(k) == k = None \/ Lower(Strip(k)) \in Placeholders

SentinelTable == [k \in Overrides \cup Environs |-> IsSentinel(k)]

Usable(override, e) == ~SentinelTable[override] \/ ~SentinelTable[e]

TierOf(t) ==
    IF rpc[t] = "acquiring" THEN [authenticated |-> args[t].authenticated,
                                  limit |-> LimitOf(args[t])]
    ELSE [authenticated |-> history[req[t].acquire].authenticated,
          limit |-> history[req[t].acquire].limit]

C22_TierFollowsCredential ==
    \A t \in Tasks :
        rpc[t] # "idle" =>
            LET usable == Usable(req[t].override, environ)
            IN  /\ req[t].authenticated = usable
                /\ TierOf(t).authenticated = usable
                /\ TierOf(t).limit =
                        IF usable
                            THEN LimitOf(Request(req[t].endpoint, req[t].base_url, TRUE))
                            ELSE cfg.UNAUTHENTICATED_LIMIT

\* A placeholder override was admitted in the unauthenticated tier while a
\* real override is admitted in the authenticated one.
C22_Witness ==
    /\ environ = "False"
    /\ \E t, u \in Tasks :
            /\ rpc[t] = "network" /\ rpc[u] = "network"
            /\ req[t].override = " NULL "
            /\ history[req[t].acquire].limit = UNAUTHENTICATED_LIMIT
            /\ req[u].override = " KEY1 "
            /\ history[req[u].acquire].authenticated

(***************************************************************************)
(* Credential resolution on its own: lines 170-179 of make_request applied *)
(* to one override after the other, under every value of the environment.  *)
(***************************************************************************)
Keys == {None, "", "  ", "none", " NULL ", "False", "nulls", "no", " KEY1 ", "KEY2"}

KeyInit ==
    /\ cfg = RateLimitConfig
    /\ sleeper = "asyncio"
    /\ environ \in Keys
    /\ debug \in BOOLEAN
    /\ DispatcherIdle
    /\ clock = 0
    /\ events = <<>>
    /\ locks = <<>>
    /\ pc = [t \in Tasks |-> "idle"]
    /\ args = [t \in Tasks |-> NoArgs]
    /\ fut = [t \in Tasks |-> "none"]
    /\ cancelReq = [t \in Tasks |-> FALSE]
    /\ wakeAt = [t \in Tasks |-> 0]
    /\ slept = [t \in Tasks |-> <<>>]
    /\ calls = 0
    /\ cancels = 0
    /\ history = <<>>

\* lines 178-179: the key and the tier of a call, and what get_api_key logs
ResolveCredential(override) ==
    /\ dcalls' = dcalls + 1
    /\ req' = [req EXCEPT ![1] =
                    [NoCall EXCEPT !.override = override,
                                   !.api_key = ResolveKey(override, environ).key,
                                   !.authenticated =
                                        Truthy(ResolveKey(override, environ).key)]]
    /\ logs' = Emitted(Warnings(ResolveKey(override, environ).warning))
    /\ UNCHANGED <<lvars, environ, debug, http_client, clients, closers, rpc,
                   attempts, returned>>

KeyNext == \E o \in Keys : dcalls < MaxDispatch /\ ResolveCredential(o) /\ UNCHANGED svars

KeySpec == KeyInit /\ [][KeyNext]_vars

(***************************************************************************)
(* C23.  The override is read first and is the credential when it is not a *)
(* sentinel; when it is missing or a sentinel ("", "none", "null",         *)
(* "false" in any case, trimmed) the process credential is the credential; *)
(* when that too is missing or a sentinel there is no credential.          *)
(***************************************************************************)
C23_OverrideThenEnvironment ==
    dcalls > 0 =>
        /\ req[1].api_key =
                IF ~IsSentinel(req[1].override) THEN Strip(req[1].override)
                ELSE IF ~IsSentinel(environ) THEN Strip(environ)
                ELSE None
        \* get_api_key is not called, so logs nothing, when the override is used
        /\ ~IsSentinel(req[1].override) => logs = {}

\* A sentinel override fell back to the key of the environment.
C23_Witness ==
    /\ dcalls > 0
    /\ req[1].override = " NULL "
    /\ environ = "KEY2"
    /\ req[1].api_key = "KEY2"

(***************************************************************************)
(* C24.  Normalising a key twice gives what normalising it once gives; a   *)
(* key whose trimmed, lower-cased form is not "", "none", "null" or        *)
(* "false" is never turned into no credential; and get_api_key and         *)
(* make_request's normaliser reject the same keys.                         *)
(***************************************************************************)
NormalizesWell(k) ==
    /\ normalize_key(normalize_key(k)) = normalize_key(k)
    /\ (k # None /\ Lower(Strip(k)) \notin Placeholders) => normalize_key(k) # None
    /\ (get_api_key(k).key = None) <=> (normalize_key(k) = None)

C24_NormalizeIdempotent ==
    dcalls > 0 =>
        /\ NormalizesWell(environ)
        /\ NormalizesWell(req[1].override)
        /\ normalize_key(req[1].api_key) = req[1].api_key

\* A padded placeholder and a padded key went through resolution.
C24_Witness ==
    /\ dcalls > 0
    /\ req[1].override = " NULL "
    /\ environ = " KEY1 "
    /\ req[1].api_key = "KEY1"

(***************************************************************************)
(* C25.  The warning that no key is set and unauthenticated access is used *)
(* is logged once, not once per call: a call never logs it when the call   *)
(* before it has logged it.                                                *)
(***************************************************************************)
NoKeyWarning ==
    Record("WARNING",
           <<"No SEMANTIC_SCHOLAR_API_KEY set. Using unauthenticated access with lower rate limits.">>,
           <<>>)

WarnsAgain ==
    /\ NoKeyWarning \in logs
    /\ dcalls' = dcalls + 1
    /\ NoKeyWarning \in logs'

C25_WarnsOnce == [][~WarnsAgain]_vars

\* The second call without a key logged the warning as well.
C25_Witness ==
    /\ environ = None
    /\ dcalls = 2
    /\ req[1].override = "none"
    /\ NoKeyWarning \in logs

(***************************************************************************)
(* C26.  Every request make_request issues carries the header x-api-key    *)
(* exactly when a normalised credential is present, with that credential   *)
(* as its value and never a sentinel, and always carries the User-Agent    *)
(* header.                                                                 *)
(***************************************************************************)
HeaderValues(headers, name) ==
    {headers[i][2] : i \in {j \in DOMAIN headers : headers[j][1] = name}}

\* The credential of each override and environment, as C23 states it.
CredentialTable ==
    [o \in Overrides |-> [e \in Environs |->
        IF ~IsSentinel(o) THEN Strip(o)
        ELSE IF ~IsSentinel(e) THEN Strip(e)
        ELSE None]]

C26_CredentialHeader ==
    /\ \A a \in attempts :
            /\ HeaderValues(a.headers, "User-Agent") = {UserAgent}
            /\ HeaderValues(a.headers, "x-api-key") # {} <=> a.authenticated
            /\ \A v \in HeaderValues(a.headers, "x-api-key") :
                    \E o \in Overrides : \E e \in Environs :
                        v = CredentialTable[o][e] /\ v # None
    /\ \A t \in Tasks :
            rpc[t] = "network" =>
                \E a \in attempts :
                    /\ a.task = t /\ a.acquire = req[t].acquire
                    /\ HeaderValues(a.headers, "x-api-key") =
                            {CredentialTable[req[t].override][environ]} \ {None}

\* One request went out with the caller's key and one with no key at all.
C26_Witness ==
    \E a, b \in attempts :
        /\ HeaderValues(a.headers, "x-api-key") = {"KEY1"}
        /\ HeaderValues(b.headers, "x-api-key") = {}
        /\ HeaderValues(b.headers, "User-Agent") = {UserAgent}
        /\ ~a.closed /\ ~b.closed

(***************************************************************************)
(* Two tools around make_request: paper_details (api/papers.py) and        *)
(* get_paper_recommendations_single (api/recommendations.py).  A tool      *)
(* checks its input, awaits make_request and looks at what came back; it   *)
(* returns in the step in which make_request returns.                      *)
(***************************************************************************)
\* paper_details, lines 438-448: what it makes of make_request's result
paper_details_reply(paper_id, result) ==
    IF "error" \in DOMAIN result /\ Contains("404", result.error.message)
        THEN create_error_response(VALIDATION, "Paper not found", [paper_id |-> paper_id])
        ELSE result

\* get_paper_recommendations_single, lines 87-95
recommendations_reply(paper_id, result) ==
    IF /\ "error" \in DOMAIN result
       /\ "status_code" \in DOMAIN result.error.details
       /\ result.error.details.status_code = 404
        THEN create_error_response(VALIDATION, "Paper not found", [paper_id |-> paper_id])
        ELSE result

\* The tool a make_request call in flight belongs to, and the ID it was given.
ToolOf(call) ==
    IF call.base_url = RecommendationsBase
        THEN [tool |-> "get_paper_recommendations_single",
              paper_id |-> SubSeq(call.endpoint, Len("/papers/forpaper/") + 1,
                                  Len(call.endpoint))]
        ELSE [tool |-> "paper_details",
              paper_id |-> SubSeq(call.endpoint, Len("/paper/") + 1, Len(call.endpoint))]

\* The tool returns without having called make_request.
Rejects(t, tool, reply) ==
    /\ returned' =
            {[task |-> t, endpoint |-> "", base_url |-> NoBase, authenticated |-> FALSE,
              client |-> 0, acquire |-> 0, outcome |-> <<>>, result |-> <<>>,
              tool |-> tool, reply |-> reply]}
    /\ logs' = {}
    /\ dcalls' = dcalls + 1
    /\ UNCHANGED <<lvars, environ, debug, http_client, clients, closers, rpc, req,
                   attempts>>

\* paper_details (api/papers.py 423-448) to its first suspension or return
PaperDetails(t, paper_id) ==
    /\ rpc[t] = "idle"
    /\ IF Strip(paper_id) = ""
          THEN Rejects(t, "paper_details",
                       create_error_response(VALIDATION, "Paper ID cannot be empty",
                                             NoDetails))
          ELSE MakeRequest(t, Descriptor("/paper/" \o paper_id, NoBase, None))

\* get_paper_recommendations_single (api/recommendations.py 57-86)
Recommendations(t, paper_id, limit, from_pool) ==
    /\ rpc[t] = "idle"
    /\ IF limit > 500
          THEN Rejects(t, "get_paper_recommendations_single",
                       create_error_response(VALIDATION,
                            "Cannot request more than 500 recommendations",
                            [max_limit |-> 500, requested |-> limit]))
          ELSE IF from_pool \notin {"recent", "all-cs"}
          THEN Rejects(t, "get_paper_recommendations_single",
                       create_error_response(VALIDATION, "Invalid paper pool specified",
                            [valid_pools |-> <<"recent", "all-cs">>]))
          ELSE MakeRequest(t, Descriptor("/papers/forpaper/" \o paper_id,
                                         RecommendationsBase, None))

\* client.request comes back, make_request returns and the tool returns.
ToolRespond(t, o) ==
    /\ rpc[t] = "network"
    /\ LET call == req[t]
           result == Classify(call, o).result
           tool == ToolOf(call)
       IN  /\ returned' =
                    {[task |-> t, endpoint |-> call.endpoint, base_url |-> call.base_url,
                      authenticated |-> call.authenticated, client |-> call.client,
                      acquire |-> call.acquire, outcome |-> o, result |-> result,
                      tool |-> tool.tool,
                      reply |-> IF tool.tool = "paper_details"
                                    THEN paper_details_reply(tool.paper_id, result)
                                    ELSE recommendations_reply(tool.paper_id, result)]}
           /\ logs' = Emitted(Classify(call, o).log)
    /\ rpc' = [rpc EXCEPT ![t] = "idle"]
    /\ req' = [req EXCEPT ![t] = NoCall]
    /\ UNCHANGED <<lvars, environ, debug, http_client, clients, closers,
                   attempts, dcalls>>

ToolNext ==
    \/ \E t \in Tasks : \E id \in {"1", " "} :
            dcalls < MaxDispatch /\ FirstFree(t) /\ PaperDetails(t, id) /\ UNCHANGED svars
    \/ \E t \in Tasks : \E id \in {"abc"} : \E n \in {100, 501} : \E p \in {"recent", "bogus"} :
            dcalls < MaxDispatch /\ FirstFree(t) /\ Recommendations(t, id, n, p) /\ UNCHANGED svars
    \/ \E t \in Tasks : Granted(t) /\ UNCHANGED svars
    \/ \E t \in Tasks : Woken(t) /\ UNCHANGED svars
    \/ \E t \in Tasks : \E o \in Outcomes : ToolRespond(t, o) /\ UNCHANGED svars
    \/ Tick /\ UNCHANGED dvars

ToolSpec == DispatchInit /\ [][ToolNext]_vars

(***************************************************************************)
(* C27.  An operation that returns an error of type validation rejected    *)
(* its input before any network activity: it made no HTTP call and no      *)
(* acquire, so recorded no rate-limit event.                               *)
(***************************************************************************)
IsValidation(reply) ==
    "error" \in DOMAIN reply /\ reply.error.type = VALIDATION

C27_ValidationBeforeNetwork ==
    \A r \in returned :
        IsValidation(r.reply) =>
            /\ r.acquire = 0
            /\ r.client = 0
            /\ \A a \in attempts : a.task = r.task => a.acquire # r.acquire

\* A validation error returned after the upstream answered 404.
C27_Witness ==
    \E r \in returned :
        /\ IsValidation(r.reply)
        /\ r.reply.error.message = "Paper not found"
        /\ r.outcome = Response(404, "not found", None)
        /\ r.acquire \in DOMAIN history
        /\ history[r.acquire].outcome = "admitted"
        /\ \E a \in attempts : a.task = r.task /\ a.acquire = r.acquire

(***************************************************************************)
(* The batch tools and the bridge's batch endpoints with the POST they     *)
(* make: paper_batch_details (api/papers.py 512-534), author_batch_details *)
(* (api/authors.py 273-299), bridge.paper_batch and bridge.author_batch.   *)
(* attempts holds the calls of client.post, with the bearer token the      *)
(* caller sent and the headers that went out.                              *)
(***************************************************************************)
\* A call of client.post.  None of the four functions calls acquire.
Post(via, endpoint, token, key, client, cl) ==
    [task |-> 0, via |-> via, endpoint |-> endpoint, base_url |-> NoBase,
     override |-> token, authenticated |-> Truthy(key), client |-> client,
     closed |-> client # 0 /\ Closed(cl, client), acquire |-> 0,
     headers |-> BatchHeaders(key)]

\* The tools: get_api_key(), `async with httpx.AsyncClient(...)`, client.post
BatchToolPosts(endpoint) ==
    /\ dcalls' = dcalls + 1
    /\ logs' = Emitted(Warnings(get_api_key(environ).warning)
                       \o BatchLog(endpoint, BatchHeaders(get_api_key(environ).key)))
    /\ attempts' = attempts \cup
            {Post("tool", endpoint, None, get_api_key(environ).key, 0, clients)}
    /\ UNCHANGED <<lvars, environ, debug, http_client, clients, closers, rpc, req,
                   returned>>

\* The bridge: the shared client, the bearer token as the key, client.post
BridgeBatchPosts(endpoint, token) ==
    LET c == initialize_client(http_client, clients)
    IN  /\ dcalls' = dcalls + 1
        /\ http_client' = c.client
        /\ clients' = c.clients
        /\ logs' = Emitted(BatchLog(endpoint, BatchHeaders(token)))
        /\ attempts' = attempts \cup
                {Post("bridge", endpoint, token, token, c.client, c.clients)}
        /\ UNCHANGED <<lvars, environ, debug, closers, rpc, req, returned>>

BatchNext ==
    \/ \E e \in BatchEndpoints : dcalls < MaxDispatch /\ BatchToolPosts(e) /\ UNCHANGED svars
    \/ \E e \in BatchEndpoints : \E k \in {None, "none", "KEY1"} :
            dcalls < MaxDispatch /\ BridgeBatchPosts(e, k) /\ UNCHANGED svars
    \/ dcalls < MaxDispatch /\ InitializeClient /\ UNCHANGED svars
    \/ dcalls < MaxDispatch /\ CleanupClient /\ UNCHANGED svars
    \/ CleanupDone /\ UNCHANGED svars

BatchSpec == DispatchInit /\ [][BatchNext]_vars

(***************************************************************************)
(* C28.  Every HTTP call of the batch tools and of the bridge's batch      *)
(* endpoints follows a completed acquire of its own on its batch bucket.   *)
(***************************************************************************)
C28_BatchAcquires ==
    \A a \in attempts :
        a.endpoint \in BatchEndpoints =>
            /\ a.acquire \in DOMAIN history
            /\ history[a.acquire].bucket = a.endpoint
            /\ history[a.acquire].outcome = "admitted"

\* A tool and the bridge each posted to a batch endpoint; the limiter has
\* seen no call.
C28_Witness ==
    /\ \E a, b \in attempts :
            /\ a.via = "tool" /\ a.endpoint = "/paper/batch"
            /\ b.via = "bridge" /\ b.endpoint = "/author/batch"
    /\ history = <<>>
    /\ events = <<>>

(***************************************************************************)
(* C29.  The bridge's batch endpoints resolve the key they send as         *)
(* make_request does: the bearer token when it is no sentinel, else the    *)
(* process credential, and never a sentinel as x-api-key.                  *)
(***************************************************************************)
C29_BridgeResolvesAsMakeRequest ==
    \A a \in attempts :
        a.via = "bridge" =>
            /\ HeaderValues(a.headers, "x-api-key")
                    = {ResolveKey(a.override, environ).key} \ {None}
            /\ \A v \in HeaderValues(a.headers, "x-api-key") : ~IsSentinel(v)

\* The bridge sent no key although the environment has one, and sent the
\* placeholder "none" as a key.
C29_Witness ==
    /\ environ = "ENVKEY"
    /\ \E a, b \in attempts :
            /\ a.via = "bridge" /\ a.override = None
            /\ HeaderValues(a.headers, "x-api-key") = {}
            /\ b.via = "bridge" /\ b.override = "none"
            /\ HeaderValues(b.headers, "x-api-key") = {"none"}

(***************************************************************************)
(* C30.  The lock map and the log map of the limiter have the same keys,   *)
(* all among the six bucket keys.  A bucket's lock and log are made        *)
(* together by the first call into the bucket and stay: no step removes a  *)
(* bucket from either map or puts a new lock or a new log in its place,    *)
(* so a lock keeps its holder and its waiters and a log changes only by    *)
(* the trim of past events at its front and the append of an admission at  *)
(* its end.                                                                *)
(***************************************************************************)
KeysAgree ==
    /\ DOMAIN locks = DOMAIN events
    /\ DOMAIN locks \subseteq CanonicalKeys

InQueue(t, lock) == \E i \in DOMAIN lock.waiters : lock.waiters[i] = t

BucketsKept ==
    \A b \in DOMAIN locks :
        /\ b \in DOMAIN locks'
        /\ b \in DOMAIN events'
        /\ \A t \in Tasks :
                /\ (pc[t] = "waiting" /\ pc'[t] = "waiting" /\ BucketOf(args[t]) = b)
                        => InQueue(t, locks'[b])
                /\ (pc[t] = "sleeping" /\ pc'[t] = "sleeping" /\ BucketOf(args[t]) = b)
                        => locks'[b].locked
        /\ LET admitted == /\ Len(history') > Len(history)
                            /\ Last(history').outcome = "admitted"
                            /\ Last(history').bucket = b
                added == IF admitted THEN <<Last(history').at>> ELSE <<>>
           IN  \E k \in 0..Len(events[b]) :
                    /\ events'[b] = SubSeq(events[b], k + 1, Len(events[b])) \o added
                    /\ \A i \in 1..k : events[b][i] < clock'

C30_BucketsLive ==
    /\ []KeysAgree
    /\ [][BucketsKept]_vars

\* A bucket in use: a task sleeps with its lock and another waits for it,
\* with an event in its log.
C30_Witness ==
    /\ DOMAIN locks = DOMAIN events
    /\ \E b \in DOMAIN locks : \E t, u \in Tasks :
            /\ pc[t] = "sleeping" /\ BucketOf(args[t]) = b
            /\ pc[u] = "waiting" /\ BucketOf(args[u]) = b
            /\ locks[b].locked
            /\ InQueue(u, locks[b])
            /\ events[b] # <<>>

(***************************************************************************)
(* C31.  Cancelling a make_request task while it awaits the network call   *)
(* is safe: the CancelledError reaches the caller and is not turned into   *)
(* an error record, the shared client stays as it is and the other calls   *)
(* in flight stay on it, and no bucket lock is left held by the cancelled  *)
(* task.                                                                   *)
(***************************************************************************)
CancelledInFlight(t) ==
    /\ rpc[t] = "network"
    /\ rpc'[t] = "idle"
    /\ \E r \in returned' : r.task = t /\ r.outcome \in Cancellations

CancelledSafely(t) ==
    /\ \A r \in returned' : r.task = t => r.result = [raised |-> "CancelledError"]
    /\ clients' = clients
    /\ http_client' = http_client
    /\ \A u \in Tasks \ {t} : rpc'[u] = rpc[u] /\ req'[u] = req[u]
    /\ locks' = locks
    /\ events' = events
    /\ \A b \in DOMAIN locks' :
            locks'[b].locked =>
                \E u \in Tasks \ {t} : pc'[u] = "sleeping" /\ BucketOf(args'[u]) = b

C31_CancelInFlightIsSafe ==
    [][\A t \in Tasks : CancelledInFlight(t) => CancelledSafely(t)]_vars

\* A call was cancelled in client.request while another call is still in
\* flight on the open shared client.
C31_Witness ==
    /\ \E r \in returned :
            /\ r.outcome \in Cancellations
            /\ r.result = [raised |-> "CancelledError"]
            /\ r.client = http_client
    /\ \E u \in Tasks :
            /\ rpc[u] = "network"
            /\ req[u].client = http_client
            /\ clients[http_client] = "open"

(***************************************************************************)
(* C32.  In every bucket the limit of callers without a credential is at   *)
(* most as permissive as the limit of callers with one: it admits no more  *)
(* requests per unit of time.                                              *)
(***************************************************************************)
\* The limits line 83 resolves for a request in the two tiers.
TierTable ==
    [c \in Configs |-> [r \in Requests |->
        [unauthenticated |-> get_rate_limit(c, limit_endpoint(r), FALSE),
         authenticated |-> get_rate_limit(c, limit_endpoint(r), TRUE)]]]

\* requests per second of u at most those of a; no limit is the most permissive
AtMostAsPermissive(u, a) ==
    \/ Unconstrained(a)
    \/ ~Unconstrained(u) /\ u[1] * a[2] <= a[1] * u[2]

TierRequests ==
    {Request("/paper/1", NoBase, TRUE), Request("/paper/2", NoBase, TRUE),
     Request("/paper/1", NoBase, FALSE)}

TierInit == Init /\ sleeper = "fake" /\ cfg = PatchSharedBucket

TierNext ==
    \E a \in TierRequests : calls < MaxTierCalls /\ Acquire(1, a) /\ UNCHANGED dvars

TierSpec == TierInit /\ [][TierNext]_vars

(***************************************************************************)
(* C33.  In every bucket and for each tier with a positive limit (N, W),   *)
(* the admissions granted to callers of that tier within any trailing      *)
(* interval of length W number at most N, also when callers of both tiers  *)
(* use the bucket.                                                         *)
(***************************************************************************)
TierAdmissions(bucket, authenticated) ==
    {i \in AdmissionsInto(bucket) : history[i].authenticated = authenticated}

C33_EachTierWithinItsLimit ==
    \A i \in DOMAIN history :
        history[i].outcome = "admitted" =>
            Cardinality({j \in TierAdmissions(history[i].bucket, history[i].authenticated) :
                            /\ j <= i
                            /\ history[j].at > history[i].at - history[i].limit[2]})
                <= history[i].limit[1]

\* Three admissions of the authenticated tier within ten seconds under the
\* limit (2, 10), after a caller without a credential trimmed the log.
C33_Witness ==
    /\ Len(history) = 4
    /\ \A i \in {1, 2, 4} :
            /\ history[i].authenticated
            /\ history[i].outcome = "admitted"
            /\ history[i].limit = <<2, 10>>
    /\ ~history[3].authenticated
    /\ history[3].limit = <<1, 5>>
    /\ history[4].at - history[1].at < 10

(***************************************************************************)
(* C34.  Every bucket's log is in non-decreasing timestamp order, so the   *)
(* trim at the front of the log removes every event at or before           *)
(* now - window_seconds: after a call has gone round the loop, to an       *)
(* admission or into the sleeper, no event of its bucket is that old, an   *)
(* event exactly window_seconds old included.                              *)
(***************************************************************************)
Sorted(log) == \A i, j \in DOMAIN log : i < j => log[i] <= log[j]

\* no event of the bucket's log after the step is at or before the cutoff
Trimmed(bucket, now, lim) ==
    \A i \in DOMAIN events'[bucket] : events'[bucket][i] > now - lim[2]

\* the step ends a call with an admission, after its last trim at `at`
AdmissionTrims ==
    (Len(history') > Len(history) /\ Last(history').outcome = "admitted")
        => Trimmed(Last(history').bucket, Last(history').at, Last(history').limit)

\* the step takes a task from the loop into the sleeper at the clock's time
SleepTrims ==
    \A t \in Tasks :
        (pc'[t] = "sleeping" /\ (pc[t] # "sleeping" \/ slept'[t] # slept[t]))
            => Trimmed(BucketOf(args'[t]), clock', LimitOf(args'[t]))

C34_LogOrderedAndTrimmed ==
    /\ [](\A b \in DOMAIN events : Sorted(events[b]))
    /\ [][AdmissionTrims /\ SleepTrims]_vars

\* A log of two events of different times, the older one left of the newer,
\* after a call slept for a slot and trimmed an event on its admission.
C34_Witness ==
    /\ history # <<>>
    /\ Last(history).outcome = "admitted"
    /\ Last(history).slept # <<>>
    /\ LET log == events[Last(history).bucket]
       IN  /\ Len(log) = 2
           /\ log[1] < log[2]
           /\ log[2] = Last(history).at

(***************************************************************************)
(* C35.  Whenever acquire finds the trimmed log full, the delay            *)
(* oldest + window_seconds - now is strictly positive: a call that is not  *)
(* admitted is suspended in the sleeper for exactly that delay, no value   *)
(* passed to the sleeper is zero or negative, and when the sleep is over   *)
(* the next pass of the loop admits the call or sleeps again, it never     *)
(* goes round without sleeping.                                            *)
(***************************************************************************)
\* the delays a call passed to the sleeper are positive
PositiveDelays(sl) == \A i \in DOMAIN sl : sl[i] > 0

\* task t is in the sleeper: its bucket's log is full, it sleeps until the
\* oldest event leaves the window, and its next pass does not spin
SleepsForTheDelay(t) ==
    LET lim == LimitOf(args[t])
        log == events[BucketOf(args[t])]
    IN  /\ Len(log) >= lim[1]
        /\ slept[t] # <<>>
        /\ PositiveDelays(slept[t])
        /\ wakeAt[t] = log[1] + lim[2]
        /\ clock >= wakeAt[t] =>
                LET r == Iteration(log, clock, lim) IN r.admit \/ r.delay > 0

C35_DelayPositive ==
    /\ \A t \in Tasks : pc[t] = "sleeping" => SleepsForTheDelay(t)
    /\ \A i \in DOMAIN history : PositiveDelays(history[i].slept)

\* A call without a credential in the sleeper for the second time: after its
\* first sleep the trim left an event of the other tier in the log.
C35_Witness ==
    \E t \in Tasks :
        /\ pc[t] = "sleeping"
        /\ Len(slept[t]) = 2
        /\ SleepsForTheDelay(t)
        /\ wakeAt[t] > clock

(***************************************************************************)
(* A burst: the callers all call acquire at time 0, and the clock is       *)
(* exact, it moves on only while every task is suspended and a sleeper     *)
(* waits for it.  Under the tests' sleeper the callers run one after the   *)
(* other, as tasks do that never suspend, and the sleeps of one move the   *)
(* clock for the next: there the burst is into one bucket, whose callers   *)
(* all arrive no later than its log has room for them.                     *)
(***************************************************************************)
Ready(t) ==
    \/ pc[t] = "sleeping" /\ clock >= wakeAt[t]
    \/ pc[t] = "waiting" /\ fut[t] = "result"

BurstAcquire(t, a) ==
    /\ calls < MaxBurst
    /\ FirstIdle(t)
    /\ sleeper = "asyncio" => clock = 0
    /\ sleeper = "fake" => \A b \in DOMAIN events : b = BucketOf(a)
    /\ Acquire(t, a)

ExactTick ==
    /\ \A t \in Tasks : ~Ready(t)
    /\ \E t \in Tasks : pc[t] = "sleeping" /\ wakeAt[t] > clock
    /\ Tick

BurstNext ==
    \/ \E t \in Tasks : \E a \in ConcurrentRequests :
            BurstAcquire(t, a) /\ UNCHANGED dvars
    \/ \E t \in Tasks : LockGranted(t) /\ UNCHANGED dvars
    \/ \E t \in Tasks : Wake(t) /\ UNCHANGED dvars
    \/ ExactTick /\ UNCHANGED dvars

BurstSpec ==
    /\ Init
    /\ [][BurstNext]_vars
    /\ WF_vars(ExactTick /\ UNCHANGED dvars)
    /\ \A t \in Tasks :
            /\ WF_vars(LockGranted(t) /\ UNCHANGED dvars)
            /\ WF_vars(Wake(t) /\ UNCHANGED dvars)

(***************************************************************************)
(* C36.  When M tasks call acquire at time t on an empty bucket with a     *)
(* positive limit (N, W) under an exact clock, all M are admitted, the     *)
(* i-th admission (i = 0..M-1) at exactly t + floor(i / N) * W.  Here      *)
(* t = 0, and the callers of a bucket are under one limit.                 *)
(***************************************************************************)
\* the limits of the calls made into the bucket so far, ended or not
LimitsInto(bucket) ==
    {history[i].limit : i \in CallsInto(bucket)}
    \cup {LimitOf(args[t]) : t \in {u \in Tasks : pc[u] # "idle" /\ BucketOf(args[u]) = bucket}}

\* the number of calls that ended into the bucket before the i-th of history
Before(bucket, i) == Cardinality({j \in CallsInto(bucket) : j < i})

BurstSchedule(bucket) ==
    \A lim \in LimitsInto(bucket) :
        (LimitsInto(bucket) = {lim} /\ ~Unconstrained(lim)) =>
            \A i \in CallsInto(bucket) :
                /\ history[i].outcome = "admitted"
                /\ history[i].at = (Before(bucket, i) \div lim[1]) * lim[2]

C36_BurstSchedule ==
    /\ [](\A b \in DOMAIN events : BurstSchedule(b))
    /\ \A t \in Tasks : (pc[t] # "idle") ~> (pc[t] = "idle")

\* Three concurrent callers of one bucket under the limit (2, 10): two were
\* admitted at 0 and the third, after its sleep, at 10.
C36_Witness ==
    /\ sleeper = "asyncio"
    /\ Len(history) = 3
    /\ \A i \in DOMAIN history :
            /\ history[i].bucket = "/default"
            /\ history[i].limit = <<2, 10>>
    /\ history[1].at = 0 /\ history[2].at = 0 /\ history[3].at = 10
    /\ history[3].slept = <<10>>
    /\ BurstSchedule("/default")

(***************************************************************************)
(* C37.  Within one bucket the admissions come in the order in which the   *)
(* tasks were granted the bucket lock: a task suspended in the sleeper     *)
(* keeps the lock, and while it sleeps no other task, of either tier, is   *)
(* admitted to the bucket or touches its log; the next call to be let      *)
(* through the bucket is the sleeper's own.                                *)
(***************************************************************************)
\* the step ends a call into the bucket by letting it through
LetsThrough(bucket) ==
    /\ Len(history') > Len(history)
    /\ Last(history').bucket = bucket
    /\ Last(history').outcome \in {"admitted", "unconstrained"}

SleeperHoldsLock(t) ==
    LET bucket == BucketOf(args[t])
    IN  /\ locks[bucket].locked
        /\ ~InQueue(t, locks[bucket])

SleeperGoesFirst(t) ==
    LET bucket == BucketOf(args[t])
    IN  /\ LetsThrough(bucket) =>
                /\ pc'[t] = "idle"
                /\ Last(history').endpoint = args[t].endpoint
                /\ Last(history').authenticated = args[t].authenticated
                /\ Last(history').slept = slept[t]
        /\ events'[bucket] # events[bucket] =>
                pc'[t] = "idle" \/ slept'[t] # slept[t]

C37_AdmissionsInGrantOrder ==
    /\ [](\A t \in Tasks : pc[t] = "sleeping" => SleeperHoldsLock(t))
    /\ [][\A t \in Tasks : pc[t] = "sleeping" => SleeperGoesFirst(t)]_vars

\* A caller without a credential sleeps with the lock while a caller of the
\* other tier, for whom the log has room, waits in the queue behind it.
C37_Witness ==
    \E t, u \in Tasks :
        LET bucket == BucketOf(args[t])
        IN  /\ pc[t] = "sleeping"
            /\ pc[u] = "waiting"
            /\ BucketOf(args[u]) = bucket
            /\ args[u].authenticated # args[t].authenticated
            /\ InQueue(u, locks[bucket])
            /\ Iteration(events[bucket], clock, LimitOf(args[u])).admit

(***************************************************************************)
(* C38.  When the network call of make_request fails (429, another HTTP    *)
(* error, a timeout, an exception of the transport) the admission event    *)
(* recorded for the call stays in its bucket's log: the step that builds   *)
(* the result leaves every bucket's log and lock as they are, whatever the *)
(* outcome, so a failed call uses up its slot as a successful one does.    *)
(***************************************************************************)
\* the network call of task t comes back in this step
NetworkReturns(t) == rpc[t] = "network" /\ rpc'[t] = "idle"

Failed(r) == "error" \in DOMAIN r.result

\* the event of the call's admission is in the log of its bucket
SlotHeld(evs, r) ==
    LET rec == history[r.acquire]
    IN  \E i \in DOMAIN evs[rec.bucket] : evs[rec.bucket][i] = rec.at

ResultKeepsSlot(t) ==
    /\ events' = events
    /\ locks' = locks
    /\ history' = history
    /\ \A r \in returned' :
            (r.task = t /\ SlotHeld(events, r)) => SlotHeld(events', r)

C38_FailureKeepsSlot ==
    [][\A t \in Tasks : NetworkReturns(t) => ResultKeepsSlot(t)]_vars

\* A call answered 429 whose admission is still in the log of its bucket.
C38_Witness ==
    \E r \in returned :
        /\ Failed(r)
        /\ r.result.error.type = RATE_LIMIT
        /\ history[r.acquire].outcome = "admitted"
        /\ SlotHeld(events, r)

(***************************************************************************)
(* asyncio tasks, as server.py uses them.  Task.cancel() on a task that    *)
(* awaits a future cancels the future; a task is a future, so cancelling a *)
(* task that awaits a task cancels the awaited task, and only if that one  *)
(* has ended is the awaiting task marked to get CancelledError itself.  A  *)
(* running or scheduled task is marked (_must_cancel).  Tasks that await   *)
(* each other make this recursion endless: it ends in RecursionError.      *)
(***************************************************************************)
Pending(task) == task.state \in {"ready", "waiting"}

Finished(task) == task.state \in {"done", "cancelled", "failed"}

RECURSIVE cancel(_, _, _)
cancel(ts, y, depth) ==
    IF depth > Cardinality(Coroutines)
        THEN [tasks |-> ts, ok |-> FALSE, overflow |-> TRUE]
    ELSE IF ~Pending(ts[y])
        THEN [tasks |-> ts, ok |-> FALSE, overflow |-> FALSE]
    ELSE IF ts[y].state = "waiting" /\ ts[y].waiter = Future
        THEN [tasks |-> [ts EXCEPT ![y].state = "ready", ![y].waiter = NoTask,
                                   ![y].throw = "cancelled"],
              ok |-> TRUE, overflow |-> FALSE]
    ELSE IF ts[y].state = "waiting"
        THEN LET r == cancel(ts, ts[y].waiter, depth + 1)
             IN  IF r.overflow \/ r.ok THEN r
                 ELSE [tasks |-> [ts EXCEPT ![y].must_cancel = TRUE],
                       ok |-> TRUE, overflow |-> FALSE]
    ELSE [tasks |-> [ts EXCEPT ![y].must_cancel = TRUE],
          ok |-> TRUE, overflow |-> FALSE]

\* Task x ends: the tasks that await it are scheduled with its result.
Finish(ts, x, outcome) ==
    [z \in DOMAIN ts |->
        IF z = x THEN [NotCreated EXCEPT !.state = outcome]
        ELSE IF ts[z].state = "waiting" /\ ts[z].waiter = x
            THEN [ts[z] EXCEPT !.state = "ready", !.waiter = NoTask,
                               !.throw = IF outcome = "done" THEN "none"
                                         ELSE IF outcome = "cancelled" THEN "cancelled"
                                         ELSE "error"]
        ELSE ts[z]]

\* Task x suspends in `await y` on a task that has not ended.  If x is marked
\* for cancellation the mark is passed on to y (Task.__step); when y awaits
\* x in turn that raises RecursionError in the event loop's callback, and x
\* stays suspended with its mark.
Await(ts, x, y, at) ==
    LET ts1 == [ts EXCEPT ![x].state = "waiting", ![x].waiter = y, ![x].at = at,
                          ![x].throw = "none"]
        r == cancel(ts1, y, 0)
    IN  IF ~ts[x].must_cancel \/ r.overflow THEN ts1
        ELSE IF r.ok THEN [r.tasks EXCEPT ![x].must_cancel = FALSE]
        ELSE r.tasks

\* Task x suspends on a future that is not a task.
AwaitFuture(ts, x, at) ==
    IF ts[x].must_cancel
        THEN [ts EXCEPT ![x].state = "ready", ![x].waiter = NoTask, ![x].at = at,
                        ![x].throw = "cancelled", ![x].must_cancel = FALSE]
        ELSE [ts EXCEPT ![x].state = "waiting", ![x].waiter = Future, ![x].at = at,
                        ![x].throw = "none"]

(***************************************************************************)
(* shutdown (server.py 33-90), run by task x, on the record s of the       *)
(* state it works on: the tasks, the stop event and the shared client.     *)
(***************************************************************************)
Bundle ==
    [tasks |-> all_tasks, stop |-> stop_event, client |-> http_client,
     clients |-> clients, closers |-> closers]

End(s, x, outcome) == [s EXCEPT !.tasks = Finish(s.tasks, x, outcome)]

\* shutdown returns: a signal's task is done, run_server's finally block
\* re-raises what it was entered with (lines 151-155).
Complete(s, x) ==
    End(s, x, IF s.tasks[x].pending = "cancelled" THEN "cancelled"
              ELSE IF s.tasks[x].pending = "error" THEN "failed"
              ELSE "done")

\* lines 67-87: set the stop event, which wakes run_server at line 143,
\* then cancel and await the bridge's task if it has not ended
finish_stage(s, x) ==
    LET set == s.stop = "clear"
        ts == s.tasks
        ts1 == IF set /\ ts[RunServer].state = "waiting"
                      /\ ts[RunServer].at = "stop_event.wait"
                  THEN [ts EXCEPT ![RunServer].state = "ready",
                                  ![RunServer].waiter = NoTask,
                                  ![RunServer].throw = "none"]
                  ELSE ts
        s1 == [s EXCEPT !.stop = IF set THEN "set" ELSE @, !.tasks = ts1]
        r == cancel(ts1, Bridge, 0)
    IN  IF ~Pending(ts1[Bridge]) \/ r.overflow
            THEN Complete(s1, x)
            ELSE [s1 EXCEPT !.tasks = Await(r.tasks, x, Bridge, "await http_server_task")]

\* line 47: cleanup_client (utils/http.py 132-137) up to the await in aclose()
cleanup(s, x) ==
    IF s.client = 0 THEN finish_stage(s, x)
    ELSE IF s.clients[s.client] = "open"
        THEN [s EXCEPT !.clients[s.client] = "closed", !.closers = @ + 1,
                       !.tasks = AwaitFuture(s.tasks, x, "aclose")]
    ELSE finish_stage([s EXCEPT !.client = 0], x)

\* lines 39-44: cancel and await the tasks of the snapshot, one by one.  A
\* RecursionError of task.cancel() (line 40) and the exception of a task that
\* failed (line 42) are not caught: shutdown ends with them.
RECURSIVE shutdown_loop(_, _)
shutdown_loop(s, x) ==
    LET todo == s.tasks[x].todo
    IN  IF todo = <<>> THEN cleanup(s, x)
        ELSE LET y == Head(todo)
                 r == cancel(s.tasks, y, 0)
                 ts1 == [r.tasks EXCEPT ![x].todo = Tail(todo)]
             IN  IF r.overflow THEN End(s, x, "failed")
                 ELSE IF ts1[y].state = "failed" THEN End(s, x, "failed")
                 ELSE IF ~Pending(ts1[y])
                    THEN shutdown_loop([s EXCEPT !.tasks = ts1], x)
                 ELSE [s EXCEPT !.tasks = Await(ts1, x, y, "await task")]

\* line 38: the tasks that have not ended, but for the current one, in the
\* order the set all_tasks() gives them
Snapshot(ts, x, order) == SelectSeq(order, LAMBDA y : y # x /\ Pending(ts[y]))

\* shutdown is called by x; from run_server's finally block with what the
\* block re-raises afterwards
shutdown(s, x, order, pending) ==
    shutdown_loop([s EXCEPT !.tasks[x].todo = Snapshot(s.tasks, x, order),
                            !.tasks[x].pending = pending], x)

\* run_server after line 143: cancel and await the mcp task (lines 145-150),
\* then the finally block
after_wait(s, order) ==
    LET r == cancel(s.tasks, Mcp, 0)
    IN  IF ~Pending(s.tasks[Mcp]) THEN shutdown(s, RunServer, order, "none")
        ELSE IF r.overflow THEN shutdown(s, RunServer, order, "error")
        ELSE [s EXCEPT !.tasks = Await(r.tasks, RunServer, Mcp, "await mcp")]

\* A scheduled task runs from where it stands to its next suspension or its
\* end.  What its await gives is CancelledError if the task is marked.
Resume(s, x, order) ==
    LET t == s.tasks[x]
        d == IF t.must_cancel THEN "cancelled" ELSE t.throw
        s0 == [s EXCEPT !.tasks[x].must_cancel = FALSE, !.tasks[x].throw = "none"]
    IN  CASE t.at = "shutdown" ->
                IF d = "cancelled" THEN End(s0, x, "cancelled")
                ELSE shutdown(s0, x, order, "none")
          [] t.at = "await task" ->
                IF d = "error" THEN End(s0, x, "failed") ELSE shutdown_loop(s0, x)
          [] t.at = "aclose" ->
                IF d = "cancelled"
                    THEN End([s0 EXCEPT !.closers = @ - 1], x, "cancelled")
                    ELSE finish_stage([s0 EXCEPT !.closers = @ - 1, !.client = 0], x)
          [] t.at = "await http_server_task" -> Complete(s0, x)
          [] t.at = "stop_event.wait" ->
                IF d = "cancelled" THEN shutdown(s0, x, order, "cancelled")
                ELSE after_wait(s0, order)
          [] t.at = "await mcp" ->
                shutdown(s0, x, order, IF d = "error" THEN "error" ELSE "none")
          [] OTHER -> End(s0, x, IF d = "cancelled" THEN "cancelled" ELSE "done")

\* the orders in which all_tasks() can give the tasks
Orders ==
    {f \in [1..Cardinality(Coroutines) -> Coroutines] :
        \A i, j \in DOMAIN f : i # j => f[i] # f[j]}

Becomes(s) ==
    /\ all_tasks' = s.tasks
    /\ stop_event' = s.stop
    /\ http_client' = s.client
    /\ clients' = s.clients
    /\ closers' = s.closers
    /\ UNCHANGED <<lvars, environ, debug, rpc, req, attempts, returned, logs, dcalls,
                   legacy>>

Serving == [NotCreated EXCEPT !.state = "waiting", !.waiter = Future, !.at = "serve"]

\* main (lines 157-180) runs run_server, which runs to line 143: the client,
\* the mcp task, the bridge's task if it is enabled, the stop event.  The
\* bridge's port is read with int(): a value that is not a number raises
\* ValueError before the stop event is made.
RunUntilComplete ==
    /\ all_tasks[RunServer].state = "absent"
    /\ \E startup \in {"bridge", "no bridge", "error"} : \E order \in Orders :
        LET c == initialize_client(http_client, clients)
            ts == [all_tasks EXCEPT ![RunServer].state = "ready",
                                    ![Mcp] = Serving,
                                    ![Bridge] = IF startup = "bridge" THEN Serving ELSE @]
            s == [Bundle EXCEPT !.tasks = ts, !.client = c.client, !.clients = c.clients]
        IN  IF startup = "error"
                THEN Becomes(shutdown(s, RunServer, order, "error"))
                ELSE Becomes([s EXCEPT !.stop = "clear",
                                       !.tasks = AwaitFuture(ts, RunServer, "stop_event.wait")])

\* the loop runs until run_server has ended
LoopRuns == Pending(all_tasks[RunServer])

\* SIGTERM or SIGINT: the handler creates a task of shutdown() (line 95)
Signal(k) ==
    /\ LoopRuns
    /\ all_tasks[SignalTask(k)].state = "absent"
    /\ \A j \in 1..(k - 1) : all_tasks[SignalTask(j)].state # "absent"
    /\ Becomes([Bundle EXCEPT !.tasks[SignalTask(k)] =
                    [NotCreated EXCEPT !.state = "ready", !.at = "shutdown"]])

\* the event loop runs a scheduled task
Step(x) ==
    /\ LoopRuns
    /\ all_tasks[x].state = "ready"
    /\ \E order \in Orders : Becomes(Resume(Bundle, x, order))

\* the transport has closed: aclose() returns
AcloseDone(x) ==
    /\ LoopRuns
    /\ all_tasks[x].state = "waiting"
    /\ all_tasks[x].at = "aclose"
    /\ Becomes([Bundle EXCEPT !.tasks[x].state = "ready", !.tasks[x].waiter = NoTask])

\* the mcp server or the bridge ends by itself
ServerEnds(y) ==
    /\ LoopRuns
    /\ all_tasks[y].state = "waiting"
    /\ all_tasks[y].at = "serve"
    /\ Becomes([Bundle EXCEPT !.tasks[y].state = "ready", !.tasks[y].waiter = NoTask])

ShutdownNext ==
    \/ RunUntilComplete
    \/ \E k \in 1..MaxSignals : Signal(k)
    \/ \E x \in Coroutines : Step(x)
    \/ \E x \in Coroutines : AcloseDone(x)
    \/ \E y \in {Mcp, Bridge} : ServerEnds(y)

\* The event loop runs every scheduled task and the transport closes.
ShutdownSpec ==
    /\ DispatchInit
    /\ [][ShutdownNext]_vars
    /\ \A x \in Coroutines : WF_vars(Step(x)) /\ WF_vars(AcloseDone(x))

(***************************************************************************)
(* C39.  shutdown eventually completes and leaves the stop event set and   *)
(* the shared client reference cleared, also when it is invoked more than  *)
(* once at a time, by a signal's task and by run_server's finally block,   *)
(* each of which cancels and awaits the other.                             *)
(***************************************************************************)
ShutdownInvoked ==
    \/ \E k \in 1..MaxSignals : all_tasks[SignalTask(k)].state # "absent"
    \/ all_tasks[RunServer].at \in {"await task", "aclose", "await http_server_task"}

ShutdownComplete ==
    /\ stop_event # "clear"
    /\ http_client = 0
    /\ \A x \in Coroutines : all_tasks[x].state # "absent" => Finished(all_tasks[x])

C39_ShutdownCompletes == ShutdownInvoked ~> ShutdownComplete

(***************************************************************************)
(* The limiter of the single-file server (semantic_scholar_server.py       *)
(* 208-232): one lock and one last-call time for each endpoint string.     *)
(***************************************************************************)
\* _get_rate_limit (lines 213-216)
legacy_get_rate_limit(c, endpoint) ==
    IF \E i \in DOMAIN RESTRICTED_ENDPOINTS : Contains(RESTRICTED_ENDPOINTS[i], endpoint)
        THEN c.SEARCH_LIMIT
        ELSE c.DEFAULT_LIMIT

\* (a variant that keeps the time read before the sleep)
legacy_acquire_stale(l, endpoint, rate_limit) ==
    LET last == IF endpoint \in DOMAIN l.last_call_time
                    THEN l.last_call_time[endpoint] ELSE 0
        time_since_last_call == l.time - last
        delay == IF time_since_last_call < rate_limit[2]
                    THEN rate_limit[2] - time_since_last_call ELSE 0
    IN  [time |-> l.time + delay,
         last_call_time |-> (endpoint :> l.time) @@ l.last_call_time,
         admitted |-> Append(l.admitted, l.time + delay)]

\* acquire (lines 218-232) of a caller that awaits it, with a sleep that
\* lasts exactly the delay
legacy_acquire(l, endpoint, rate_limit) ==
    LET last == IF endpoint \in DOMAIN l.last_call_time
                    THEN l.last_call_time[endpoint] ELSE 0
        time_since_last_call == l.time - last
        delay == IF time_since_last_call < rate_limit[2]
                    THEN rate_limit[2] - time_since_last_call ELSE 0
    IN  [time |-> l.time + delay,
         last_call_time |-> (endpoint :> (l.time + delay)) @@ l.last_call_time,
         admitted |-> Append(l.admitted, l.time + delay)]

LegacyInit ==
    /\ cfg \in {RateLimitConfig, PatchSearchWindow}
    /\ sleeper = "fake"
    /\ environ = None
    /\ debug = FALSE
    /\ DispatcherIdle
    /\ clock = 0
    /\ events = <<>>
    /\ locks = <<>>
    /\ pc = [t \in Tasks |-> "idle"]
    /\ args = [t \in Tasks |-> NoArgs]
    /\ fut = [t \in Tasks |-> "none"]
    /\ cancelReq = [t \in Tasks |-> FALSE]
    /\ wakeAt = [t \in Tasks |-> 0]
    /\ slept = [t \in Tasks |-> <<>>]
    /\ calls = 0
    /\ cancels = 0
    /\ history = <<>>

\* time passes for the caller of both limiters
Elapse ==
    /\ clock < MaxLegacyTime
    /\ clock' = clock + 1
    /\ legacy' = [legacy EXCEPT !.time = @ + 1]
    /\ UNCHANGED <<cfg, sleeper, events, locks, pc, args, fut, cancelReq, wakeAt,
                   slept, calls, cancels, history>>
    /\ UNCHANGED <<environ, debug, http_client, clients, closers, rpc, req, attempts,
                   returned, logs, dcalls, stop_event, all_tasks>>

\* The caller acquires from both limiters for one endpoint string whose
\* limit is (1, W) in both, at a time that is at least W.
AcquireBoth(endpoint) ==
    LET a == Request(endpoint, NoBase, TRUE)
        rate_limit == legacy_get_rate_limit(cfg, endpoint)
    IN  /\ calls < MaxLegacyCalls
        /\ history # <<>> => endpoint = history[1].endpoint
        /\ LimitOf(a) = rate_limit
        /\ rate_limit[1] = 1
        /\ clock >= rate_limit[2]
        /\ legacy.time >= rate_limit[2]
        /\ Acquire(1, a)
        /\ legacy' = legacy_acquire(legacy, endpoint, rate_limit)
        /\ UNCHANGED <<environ, debug, http_client, clients, closers, rpc, req,
                       attempts, returned, logs, dcalls, stop_event, all_tasks>>

LegacyNext ==
    \/ Elapse
    \/ \E e \in Endpoints : AcquireBoth(e)

LegacySpec == LegacyInit /\ [][LegacyNext]_vars

(***************************************************************************)
(* C40.  For one endpoint string with limit (1, W) and clock values of at  *)
(* least W, the last-call-time limiter and the sliding-window limiter      *)
(* admit every request of every sequence of arrivals at the same time.     *)
(***************************************************************************)
AdmissionTimes == [i \in DOMAIN history |-> history[i].at]

C40_LegacyEquivalent ==
    /\ legacy.admitted = AdmissionTimes
    /\ legacy.time = clock

\* Three calls under the window of 3: the second arrives one second after
\* the first and waits two, the third arrives when the window is over.
C40_Witness ==
    /\ Len(history) = 3
    /\ history[1].limit = <<1, 3>>
    /\ history[1].slept = <<>>
    /\ history[2].slept = <<2>>
    /\ history[3].slept = <<>>
    /\ history[3].at >= history[2].at + 3
    /\ legacy.admitted = AdmissionTimes

====
